---- MODULE Spec2Model ----
\* A model of the I/O bridge of petal_app_manager.proxies.external:
\* ExternalProxy (per-key bounded send/recv deques, the handler registry, the
\* worker thread's drain / write / read / dispatch loop) and
\* MavLinkExternalProxy.send_and_wait.
\*
\* Two threads act on the proxy: the caller's thread (the asyncio scheduler
\* thread, which calls send, register_handler, unregister_handler, start, stop
\* and send_and_wait one call at a time) and the worker thread started by
\* start(), which runs _run.  A step of the model is one operation that the
\* interpreter executes without releasing the GIL to the other thread in a way
\* the other thread could observe: a deque append or popleft, a dict lookup, a
\* list append or remove, one fetch of the list iterator followed by the call
\* of the fetched callback.
EXTENDS Naturals, Integers, Sequences, FiniteSets, TLC

\* ------------------------------------------------------------------ bounds
MaxCap    == 2   \* largest value of the constructor's maxlen that is tried
MaxSends  == 3   \* messages handed to send() in one behaviour
MaxReads  == 2   \* (key, message) pairs returned by _io_read_once in total
MaxWaits  == 1   \* send_and_wait calls in one behaviour
MaxRegs   == 2   \* callbacks a caller keeps registered at one time
MaxBurst  == 2   \* largest burst_count passed to send()
MaxMsgs   == 1   \* MAVLink messages that arrive on the link in one behaviour
MaxTimeouts == 1 \* wait_heartbeat() calls of one start() that time out
MaxStarts == 3   \* start() calls on one instance in one behaviour
MaxCalls  == 3   \* calls of MavLinkProxy methods in one behaviour
MaxTicks  == 1   \* steps other scheduler tasks take in one behaviour
MaxProgress == 2 \* progress callbacks MAVFTP makes in one behaviour
MaxFiles  == 2   \* files of a listing, and entries of a log index
MaxSize   == 3   \* largest size of a file or of an index entry
MaxTol    == 1   \* largest threshold_size passed to _match_ls_to_entries
MaxCode   == 2   \* largest return_code of a MAVFTP acknowledgement
MaxNames  == 2   \* names in one request to the config API

Keys         == {"mav", "42"}
\* the messages a MAVLink peer sends: get_msgId() and get_type()
MavMessages  == {[id |-> 42, type |-> "MISSION_CURRENT"], [id |-> 0, type |-> "HEARTBEAT"]}
AllKeys      == Keys \cup {"0"} \cup {m.type : m \in MavMessages}
UserHandlers == {<<"h", 1>>, <<"h", 2>>}

OneShot(n)   == <<"_handler", n>>          \* the closure of the n-th send_and_wait
Handlers     == UserHandlers \cup {OneShot(n) : n \in 1..MaxWaits}

\* ----------------------------------------------------- python containers
\* A dict is kept as the sequence of its (key, value) entries in insertion
\* order, which is the order Python iterates a dict in.
DictKeys(d)   == {d[i].key : i \in DOMAIN d}
DictHas(d, k) == k \in DictKeys(d)
DictIdx(d, k) == CHOOSE i \in DOMAIN d : d[i].key = k
DictGet(d, k) == d[DictIdx(d, k)].val
DictPut(d, k, v) ==
    IF DictHas(d, k) THEN [d EXCEPT ![DictIdx(d, k)].val = v]
    ELSE Append(d, [key |-> k, val |-> v])
DictDel(d, k) == SelectSeq(d, LAMBDA e : e.key # k)
\* d.get(k, []) and d.setdefault(k, deque()) read the stored value or the default
DictGetOr(d, k, dflt) == IF DictHas(d, k) THEN DictGet(d, k) ELSE dflt

\* collections.deque(maxlen=n).append(m): the oldest entry is discarded when full
DequeAppendKeepOldest(q, m, n) ==
    IF Len(q) < n THEN Append(q, m) ELSE q
DequeAppend(q, m, n) ==
    IF Len(q) < n THEN Append(q, m)
    ELSE IF n = 0 THEN q
    ELSE Append(Tail(q), m)
\* what the append discards, if anything
DequeDropped(q, m, n) ==
    IF Len(q) < n THEN {} ELSE IF n = 0 THEN {m} ELSE {Head(q)}

\* list.remove(x): removes the first occurrence
RECURSIVE RemoveFirst(_, _)
RemoveFirst(l, x) ==
    IF l = <<>> THEN <<>>
    ELSE IF Head(l) = x THEN Tail(l)
    ELSE <<Head(l)>> \o RemoveFirst(Tail(l), x)

InList(l, x) == \E i \in DOMAIN l : l[i] = x
Count(l, x)  == Cardinality({i \in DOMAIN l : l[i] = x})

\* A call binds its keyword arguments to the parameters of the signature; a
\* keyword that names no parameter raises TypeError before the body runs.
Binds(params, kwargs) == kwargs \subseteq params
register_handler_params == {"key", "fn"}
send_params             == {"key", "msg"}

VARIABLES
    _maxlen,      \* ExternalProxy._maxlen
    _send,        \* ExternalProxy._send     : dict key -> deque
    _recv,        \* ExternalProxy._recv     : dict key -> deque
    _handlers,    \* ExternalProxy._handlers : dict key -> list of callbacks
    _running,     \* ExternalProxy._running  (threading.Event)
    pc,           \* where the worker thread is in _run
    items,        \* _run: the keys of list(self._send.items()) still to drain
    pending,      \* _run: the dict of drained messages of this iteration
    batch,        \* _run: the pairs of _io_read_once() still to process
    cur,          \* _run: the (key, msg) pair being dispatched
    it,           \* _run: the list iterator of "for cb in self._handlers.get(key, [])"
    saw,          \* send_and_wait: position of the caller, match_key, done
    hist,         \* history: what was sent, written, read, called, raised
    master,       \* MavLinkExternalProxy.master: the connection, and its heartbeat
    mavcall,      \* the caller's position in MavLinkExternalProxy.start / stop
    life,         \* every thread start() has created, and the caller of start / stop
    exe,          \* MavLinkProxy: _loop, _parser, _exe and the tasks that call it
    lsm,          \* the last call of _match_ls_to_entries: arguments and outcome
    prs,          \* the call of a _BlockingParser method: arguments and outcome
    cfg           \* proxies.yaml as the config API reads and writes it, and its
                  \* last response

\* the state of the drivers and proxies around the bridge
elsewhere == <<life, exe, lsm, prs, cfg>>
beyond == <<master, mavcall, elsewhere>>

vars == <<_maxlen, _send, _recv, _handlers, _running, pc, items, pending,
          batch, cur, it, saw, hist, beyond>>

\* "nothing yet" values of the worker's current pair and of the recorded calls
NoCur   == [n |-> 0, key |-> "mav", msg |-> "a"]
\* an inbound message object: the n-th pair the driver delivered, and its content
Obj(n, body) == [n |-> n, body |-> body]
NoBurst == [count |-> 0, key |-> "mav", msg |-> 0, drains |-> 0]
NoCalls == [h \in Handlers |-> 0]
\* self.master = None; no start() or stop() of the driver in progress
NoMaster  == [state |-> "none", heartbeat |-> FALSE, read |-> <<>>, tx |-> <<>>]
NoMavCall == [pc |-> "idle", warnings |-> 0, joined |-> FALSE, last |-> "none"]
\* the scheduler tasks that call the MavLinkProxy
Tasks == {1, 2}
\* MavLinkProxy.__init__: self._parser = None, self._loop = None, an executor with
\* nothing queued. start() cannot replace _parser (see ParserInit); a parser is
\* there only where the application has assigned one built with its log entries.
NoExe == [loop     |-> FALSE,
          parser   |-> "None",
          tasks    |-> [t \in Tasks |-> [pc |-> "idle", got |-> "none"]],
          queue    |-> <<>>,     \* the executor's work queue
          running  |-> {},       \* the work items its threads are running
          finished |-> {},       \* futures that are done and not yet delivered
          started  |-> <<>>,     \* the ids of the work items, in the order they began
          nsub     |-> 0,        \* work items submitted so far
          ncall    |-> 0,        \* calls made so far
          ticks    |-> 0,        \* steps other scheduler tasks took
          overlap  |-> FALSE,    \* one of them was taken while a work item ran
          down     |-> FALSE,    \* self._exe.shutdown(wait=False) was called
          progress |-> <<>>]     \* the on_progress invocations _progress_cb produced
\* no method of the parser called yet
NoCall == [op |-> "none", arg |-> <<>>, raised |-> "none", out |-> <<>>]
\* _match_ls_to_entries not called yet
NoMatch == [ls |-> <<>>, entries |-> <<>>, tol |-> 0, raised |-> "none", out |-> <<>>]
\* self._thread = None, no thread created; nobody inside stop()
NoLife == [threads |-> <<>>, pc |-> "idle"]
NoDfi   == [made |-> FALSE, key |-> "mav", fn |-> <<"h", 1>>, same |-> 0, inv |-> 0]

\* ------------------------------------------------------------ construction
\* ExternalProxy.__init__ (through MavLinkExternalProxy.__init__)
InitBridge ==
    /\ _maxlen \in 1..MaxCap
    /\ _send = <<>>
    /\ _recv = <<>>
    /\ _handlers = <<>>
    /\ _running = FALSE
    /\ pc = "none"
    /\ items = <<>>
    /\ pending = <<>>
    /\ batch = <<>>
    /\ cur = NoCur
    /\ it = [live |-> FALSE, idx |-> 0]
    /\ saw = [pc |-> "idle", key |-> "mav", n |-> 0, done |-> FALSE, wake |-> 0]
    /\ hist = [nmsg    |-> 0,      \* message objects created by callers so far
               sent    |-> {},     \* those a send() call appended to a deque
               evicted |-> {},     \* those a later append pushed out of _send
               down    |-> {},     \* those sent while no thread was inside _run
               written |-> <<>>,   \* (key, msg) in the order given to _io_write_once
               mark    |-> 0,      \* messages created before the running iteration
                                   \* took its list(self._send.items())
               rx      |-> <<>>,   \* the pairs _io_read_once returned, in order
               nread   |-> 0,      \* how many of them the worker has taken up
               calls   |-> NoCalls,   \* how often each callback was invoked for cur
               order   |-> [k \in AllKeys |-> <<>>],   \* per key, the fn of the
                                   \* register_handler calls in force, in call order
               failed  |-> FALSE,  \* a callback invoked for cur raised
               sat     |-> FALSE,  \* the collector of this send_and_wait has returned True
               touched |-> {},     \* callbacks (un)registered on cur's key since its
                                   \* dispatch began
               regs    |-> [p \in AllKeys \X Handlers |-> 0],  \* registrations in force
               burst   |-> NoBurst,   \* the send(..., burst_count=k) call, if one was made
               dfi     |-> NoDfi,   \* the register_handler(..., duplicate_filter_interval=d) call
               raised  |-> {}]     \* exceptions that reached a caller
    /\ master = NoMaster
    /\ mavcall = NoMavCall
    /\ life = NoLife
    /\ lsm = NoMatch
    /\ prs = NoCall

\* proxies.yaml: the names the dependency maps know, and one they do not
PetalNames == {"petal_warehouse", "flight_records"}
ProxyNames == {"redis", "cloud"}
Unlisted == "unlisted"
\* no request answered yet
NoResponse == [endpoint |-> "none", status |-> 0, results |-> 0, errors |-> 0]
\* a file with nothing enabled and no dependency declared
NoConfig == [enabled_petals |-> {}, enabled_proxies |-> {},
             petal_dependencies |-> [n \in PetalNames |-> {}],
             proxy_dependencies |-> [n \in ProxyNames |-> {}],
             last |-> NoResponse]

\* dependencies.get(name, [])
Deps(dependencies, name) ==
    IF name \in DOMAIN dependencies THEN dependencies[name] ELSE {}

\* every enabled petal and every enabled proxy has its dependencies enabled
DependenciesMet(c) ==
    /\ \A petal \in c.enabled_petals :
          Deps(c.petal_dependencies, petal) \subseteq c.enabled_proxies
    /\ \A proxy \in c.enabled_proxies :
          Deps(c.proxy_dependencies, proxy) \subseteq c.enabled_proxies

\* every object as its constructor leaves it
Init ==
    /\ InitBridge
    /\ exe = NoExe
    /\ cfg = NoConfig

\* the same, with a proxies.yaml of several dependency maps (a petal that needs
\* both proxies, proxies that need each other or themselves) and any enabled
\* petals and proxies whose dependencies are met
InitConfig ==
    /\ InitBridge
    /\ exe = NoExe
    /\ cfg \in {c \in [enabled_petals : SUBSET PetalNames,
                        enabled_proxies : SUBSET ProxyNames,
                        petal_dependencies :
                            {d \in [PetalNames -> SUBSET ProxyNames] :
                                d["flight_records"] = ProxyNames},
                        proxy_dependencies :
                            {d \in [ProxyNames -> SUBSET ProxyNames] :
                                "redis" \notin d["redis"]},
                        last : {NoResponse}] : DependenciesMet(c)}

\* the same, with the MavLinkProxy either as constructed or holding a parser
InitFt ==
    /\ InitBridge
    /\ exe \in {NoExe, [NoExe EXCEPT !.parser = "parser"]}
    /\ cfg = NoConfig

\* The caller's thread runs one call at a time; inside send_and_wait it is
\* blocked in done.wait(), inside MavLinkExternalProxy.start in wait_heartbeat(),
\* inside stop in join().
CallerFree == /\ saw.pc \in {"idle", "returned", "raised"}
              /\ mavcall.pc = "idle"

\* --------------------------------------------------------------- the API
RegisterFirst(handlers, key, fn) ==
    DictPut(handlers, key, <<fn>> \o DictGetOr(handlers, key, <<>>))
Register(handlers, key, fn) ==
    DictPut(handlers, key, Append(DictGetOr(handlers, key, <<>>), fn))

UnregisterKeepEmptyKey(handlers, key, fn) ==
    IF DictGetOr(handlers, key, <<>>) = <<>> THEN handlers
    ELSE IF ~InList(DictGet(handlers, key), fn) THEN handlers
    ELSE DictPut(handlers, key, RemoveFirst(DictGet(handlers, key), fn))

Unregister(handlers, key, fn) ==
    IF DictGetOr(handlers, key, <<>>) = <<>> THEN handlers       \* "if not callbacks: return"
    ELSE IF ~InList(DictGet(handlers, key), fn) THEN handlers    \* ValueError: warn, return
    ELSE IF RemoveFirst(DictGet(handlers, key), fn) = <<>>
         THEN DictDel(handlers, key)                             \* list now empty: del
         ELSE DictPut(handlers, key, RemoveFirst(DictGet(handlers, key), fn))

\* The worker's list iterator belongs to the list object it was created on.
\* "del self._handlers[key]" detaches that (then empty) list from the registry: a
\* later register_handler creates a new list, which the iterator does not see.
ItAfter(handlers2, key) ==
    IF cur.n > 0 /\ cur.key = key /\ it.live /\ ~DictHas(handlers2, key)
    THEN [it EXCEPT !.live = FALSE]
    ELSE it

Touch(key, fn) ==
    IF cur.n > 0 /\ cur.key = key THEN hist.touched \cup {fn} ELSE hist.touched

\* the callbacks in the registry, over all keys
RECURSIVE Registered(_)
Registered(handlers) ==
    IF handlers = <<>> THEN 0
    ELSE Len(Head(handlers).val) + Registered(Tail(handlers))

\* register_handler(key, fn, **kwargs) called from the caller's thread
register_handler(key, fn, kwargs) ==
    /\ CallerFree
    /\ Registered(_handlers) < MaxRegs
    /\ IF Binds(register_handler_params, {"key", "fn"} \cup kwargs)
       THEN /\ _handlers' = Register(_handlers, key, fn)
            /\ hist' = [hist EXCEPT !.regs[<<key, fn>>] = @ + 1,
                                    !.order[key] = Append(@, fn),
                                    !.touched = Touch(key, fn)]
       ELSE /\ ~hist.dfi.made
            /\ _handlers' = _handlers
            /\ hist' = [hist EXCEPT !.dfi = [made |-> TRUE, key |-> key, fn |-> fn,
                                             same |-> 0, inv |-> 0],
                                    !.raised = @ \cup {"TypeError"}]
    /\ UNCHANGED <<_maxlen, _send, _recv, _running, pc, items, pending, batch,
                   cur, it, saw>>
    /\ UNCHANGED beyond

\* unregister_handler(key, fn) called from the caller's thread
unregister_handler(key, fn) ==
    /\ CallerFree
    /\ _handlers' = Unregister(_handlers, key, fn)
    /\ it' = ItAfter(_handlers', key)
    /\ hist' = [hist EXCEPT !.regs[<<key, fn>>] = IF @ > 0 THEN @ - 1 ELSE 0,
                            !.order[key] = RemoveFirst(@, fn),
                            !.touched = Touch(key, fn)]
    /\ UNCHANGED <<_maxlen, _send, _recv, _running, pc, items, pending, batch,
                   cur, saw>>
    /\ UNCHANGED beyond

\* self._send.setdefault(key, deque(maxlen=self._maxlen)).append(msg)
EnqueueWhenRunning(buf, key, msg) ==
    IF _running
    THEN DictPut(buf, key, DequeAppend(DictGetOr(buf, key, <<>>), msg, _maxlen))
    ELSE buf
Enqueue(buf, key, msg) ==
    DictPut(buf, key, DequeAppend(DictGetOr(buf, key, <<>>), msg, _maxlen))
Evicts(buf, key, msg) ==
    DequeDropped(DictGetOr(buf, key, <<>>), msg, _maxlen)

\* send(key, msg, **kwargs) called from the caller's thread; msg is a new object
\* (track: the history notes whether a thread was inside _run at the call)
SendCall(key, kwargs, count, track) ==
    /\ CallerFree
    /\ hist.nmsg < MaxSends
    /\ LET m == hist.nmsg + 1 IN
       IF Binds(send_params, {"key", "msg"} \cup kwargs)
       THEN /\ count = 1
            /\ _send' = Enqueue(_send, key, m)
            /\ hist' = [hist EXCEPT !.nmsg = m,
                                    !.sent = @ \cup {m},
                                    !.down = IF track /\ pc \in {"none", "exited"}
                                             THEN @ \cup {m} ELSE @,
                                    !.evicted = @ \cup Evicts(_send, key, m)]
       ELSE /\ hist.burst.count = 0
            /\ count > 1
            /\ _send' = _send
            /\ hist' = [hist EXCEPT !.nmsg = m,
                                    !.burst = [key |-> key, msg |-> m, count |-> count,
                                               drains |-> 0],
                                    !.raised = @ \cup {"TypeError"}]
    /\ UNCHANGED <<_maxlen, _recv, _handlers, _running, pc, items, pending, batch,
                   cur, it, saw>>
    /\ UNCHANGED beyond

send(key, kwargs, count) == SendCall(key, kwargs, count, FALSE)

\* start(): set the flag, create and start the worker thread
start ==
    /\ CallerFree
    /\ pc = "none"
    /\ _running' = TRUE
    /\ pc' = "loop"
    /\ UNCHANGED <<_maxlen, _send, _recv, _handlers, items, pending, batch, cur,
                   it, saw, hist>>
    /\ UNCHANGED beyond

\* start() called again once the thread of the previous start() has left _run:
\* the flag is set and a new thread created; _send is the dict __init__ made
restart ==
    /\ CallerFree
    /\ pc = "exited"
    /\ _running' = TRUE
    /\ pc' = "loop"
    /\ UNCHANGED <<_maxlen, _send, _recv, _handlers, items, pending, batch, cur,
                   it, saw, hist>>
    /\ UNCHANGED beyond

\* stop(): clear the flag (the join that follows changes no state of the bridge)
stop ==
    /\ CallerFree
    /\ _running
    /\ _running' = FALSE
    /\ UNCHANGED <<_maxlen, _send, _recv, _handlers, pc, items, pending, batch,
                   cur, it, saw, hist>>
    /\ UNCHANGED beyond

\* ------------------------------------------------------- the worker: _run
\* pending[key].append(msg) on the defaultdict(list) of the iteration
PendingAdd(p, key, msg) == DictPut(p, key, Append(DictGetOr(p, key, <<>>), msg))

\* the (key, msg) pairs of a batches dict, in the order a driver iterates it
RECURSIVE Flatten(_)
Flatten(p) ==
    IF p = <<>> THEN <<>>
    ELSE [i \in 1..Len(Head(p).val) |-> [key |-> Head(p).key, msg |-> Head(p).val[i]]]
         \o Flatten(Tail(p))

\* the keys of a dict in iteration order
KeyList(d) == [i \in 1..Len(d) |-> d[i].key]

\* self._running.is_set(), as the loop test reads it
is_set_ignored(flag) == TRUE
is_set(flag) == flag

\* "while self._running.is_set():" and "list(self._send.items())"
LoopCheck ==
    /\ pc = "loop"
    /\ IF is_set(_running)
       THEN /\ pc' = "drain"
            /\ items' = KeyList(_send)
            /\ hist' = [hist EXCEPT !.mark = hist.nmsg,
                                    !.burst.drains =
                                        IF hist.burst.count > 0 /\ @ = 0 THEN 1 ELSE @,
                                    !.dfi.same = 0,
                                    !.dfi.inv = 0]
       ELSE /\ pc' = "exited"
            /\ UNCHANGED <<items, hist>>
    /\ pending' = <<>>
    /\ UNCHANGED <<_maxlen, _send, _recv, _handlers, _running, batch, cur, it, saw>>
    /\ UNCHANGED beyond

\* what one "while dq: pending[key].append(dq.popleft())" step leaves in the deque
PopLeftPeek(dq) == dq
PopLeft(dq) == Tail(dq)

\* "for key, dq in ...: while dq: pending[key].append(dq.popleft())", one popleft
\* or one move to the next key
DrainStep ==
    /\ pc = "drain"
    /\ IF items = <<>>
       THEN /\ pc' = "write"
            /\ UNCHANGED <<_send, items, pending>>
       ELSE LET key == Head(items)
                dq  == DictGet(_send, key) IN
            IF dq # <<>>
            THEN /\ _send' = DictPut(_send, key, PopLeft(dq))
                 /\ pending' = PendingAdd(pending, key, Head(dq))
                 /\ UNCHANGED <<pc, items>>
            ELSE /\ items' = Tail(items)
                 /\ UNCHANGED <<pc, _send, pending>>
    /\ UNCHANGED <<_maxlen, _recv, _handlers, _running, batch, cur, it, saw, hist>>
    /\ UNCHANGED beyond

\* "if pending: self._io_write_once(pending)": the driver is given every pair
WriteStep ==
    /\ pc = "write"
    /\ pc' = "read"
    /\ pending' = <<>>
    /\ hist' = [hist EXCEPT !.written = @ \o Flatten(pending),
                            !.burst.drains = IF @ = 1 THEN 2 ELSE @]
    /\ UNCHANGED <<_maxlen, _send, _recv, _handlers, _running, items, batch,
                   cur, it, saw>>
    /\ UNCHANGED beyond

\* the batches a driver's _io_read_once may return
Pair(bodies) == [key : Keys, msg : bodies]
Batches(n, bodies) == UNION {[1..k -> Pair(bodies)] : k \in 0..n}

\* "for key, msg in self._io_read_once():" the call
ReadStep(b) ==
    /\ pc = "read"
    /\ Len(hist.rx) + Len(b) <= MaxReads
    /\ batch' = b
    /\ pc' = "recv"
    /\ hist' = [hist EXCEPT !.rx = @ \o b, !.mark = 0]
    /\ UNCHANGED <<_maxlen, _send, _recv, _handlers, _running, items, pending,
                   cur, it, saw>>
    /\ UNCHANGED beyond

\* "dq = self._recv.setdefault(key, deque(maxlen=self._maxlen)); dq.append(msg)"
RecvAppendSkipped(recv, key, obj) == recv
RecvAppend(recv, key, obj) == Enqueue(recv, key, obj)

\* the next pair of the batch: append to _recv[key], create the list iterator;
\* with no pair left: time.sleep(0.01) and back to the loop test
RecvStep ==
    /\ pc = "recv"
    /\ IF batch = <<>>
       THEN /\ pc' = "loop"
            /\ cur' = NoCur
            /\ it' = [live |-> FALSE, idx |-> 0]
            /\ hist' = [hist EXCEPT !.touched = {}, !.calls = NoCalls,
                                    !.failed = FALSE]
            /\ UNCHANGED <<_recv, batch>>
       ELSE LET key == Head(batch).key
                msg == Head(batch).msg IN
            /\ _recv' = RecvAppend(_recv, key, Obj(hist.nread + 1, msg))
            /\ cur' = [n |-> hist.nread + 1, key |-> key, msg |-> msg]
            /\ it' = [live |-> DictHas(_handlers, key), idx |-> 0]
            /\ batch' = Tail(batch)
            /\ pc' = "dispatch"
            /\ hist' = [hist EXCEPT !.nread = @ + 1,
                                    !.touched = {},
                                    !.calls = NoCalls,
                                    !.failed = FALSE]
    /\ UNCHANGED <<_maxlen, _send, _handlers, _running, items, pending, saw>>
    /\ UNCHANGED beyond

\* the list the iterator reads: the key's live list, or a detached empty one
ItList == IF it.live THEN DictGetOr(_handlers, cur.key, <<>>) ELSE <<>>

\* what a callback does when called: a user callback returns or raises; the
\* closure of send_and_wait returns what its collector did
Outcomes(cb) == IF cb \in UserHandlers THEN {"return", "raise"}
                ELSE {"true", "false", "error"}

\* _handler of send_and_wait: "if collector(pkt): done.set()", exceptions swallowed
HandlerSignalsAlways(cb, result) == cb \notin UserHandlers
HandlerSignals(cb, result) == cb \notin UserHandlers /\ result = "true"

\* the worker goes on after a callback that raised ("except Exception: log")
AfterCallback(result) == "dispatch"

\* "for cb in self._handlers.get(key, []): try: cb(msg) except Exception: log"
\* one fetch of the iterator and the call of the fetched callback
DispatchStep(result) ==
    /\ pc = "dispatch"
    /\ IF it.idx < Len(ItList)
       THEN LET cb == ItList[it.idx + 1] IN
            /\ result \in Outcomes(cb)
            /\ it' = [it EXCEPT !.idx = @ + 1]
            /\ pc' = AfterCallback(result)
            /\ saw' = [saw EXCEPT !.done = @ \/ (cb = OneShot(saw.n)
                                                  /\ HandlerSignals(cb, result))]
            /\ hist' = [hist EXCEPT
                   !.calls[cb] = @ + 1,
                   !.failed = @ \/ result \in {"raise", "error"},
                   !.sat = @ \/ (cb = OneShot(saw.n) /\ result = "true"),
                   !.dfi.inv = IF hist.dfi.made /\ cur.key = hist.dfi.key
                                  /\ cb = hist.dfi.fn THEN @ + 1 ELSE @]
       ELSE /\ result = "return"
            /\ pc' = "recv"
            /\ hist' = [hist EXCEPT
                   !.dfi.same = IF hist.dfi.made /\ cur.key = hist.dfi.key
                                THEN @ + 1 ELSE @]
            /\ UNCHANGED <<it, saw>>
    /\ UNCHANGED <<_maxlen, _send, _recv, _handlers, _running, items, pending,
                   batch, cur>>
    /\ UNCHANGED beyond

\* ------------------------------------------ MavLinkExternalProxy.send_and_wait
\* self.send("mav", request_msg); done = threading.Event()
SawSend(match_key) ==
    /\ CallerFree
    /\ saw.n < MaxWaits
    /\ hist.nmsg < MaxSends
    /\ LET m == hist.nmsg + 1 IN
       /\ _send' = Enqueue(_send, "mav", m)
       /\ hist' = [hist EXCEPT !.nmsg = m,
                               !.sent = @ \cup {m},
                               !.evicted = @ \cup Evicts(_send, "mav", m),
                               !.sat = FALSE]
    /\ saw' = [pc |-> "sent", key |-> match_key, n |-> saw.n + 1, done |-> FALSE,
               wake |-> 0]
    /\ UNCHANGED <<_maxlen, _recv, _handlers, _running, pc, items, pending, batch,
                   cur, it>>
    /\ UNCHANGED beyond

\* self.register_handler(match_key, _handler)
SawRegister ==
    /\ saw.pc = "sent"
    /\ _handlers' = Register(_handlers, saw.key, OneShot(saw.n))
    /\ saw' = [saw EXCEPT !.pc = "waiting"]
    /\ hist' = [hist EXCEPT !.regs[<<saw.key, OneShot(saw.n)>>] = @ + 1,
                            !.order[saw.key] = Append(@, OneShot(saw.n)),
                            !.touched = Touch(saw.key, OneShot(saw.n))]
    /\ UNCHANGED <<_maxlen, _send, _recv, _running, pc, items, pending, batch,
                   cur, it>>
    /\ UNCHANGED beyond

\* done.wait(timeout) returns: True once the event is set, False when the timeout
\* passes with the event not set
SawWake ==
    /\ saw.pc = "waiting"
    /\ saw' = [saw EXCEPT !.pc = IF saw.done THEN "woken" ELSE "expired",
                          !.wake = IF hist.sat THEN 1 ELSE 0]
    /\ UNCHANGED <<_maxlen, _send, _recv, _handlers, _running, pc, items, pending,
                   batch, cur, it, hist>>
    /\ UNCHANGED beyond

\* where send_and_wait leaves the registry on each of its two ways out
SawCleanupOnSuccessOnly(handlers, key, fn, how) ==
    IF how = "woken" THEN Unregister(handlers, key, fn) ELSE handlers
SawCleanup(handlers, key, fn, how) == Unregister(handlers, key, fn)

\* "if not done.wait(timeout): unregister; raise TimeoutError" / "unregister"
SawReturn ==
    /\ saw.pc \in {"woken", "expired"}
    /\ _handlers' = SawCleanup(_handlers, saw.key, OneShot(saw.n), saw.pc)
    /\ it' = ItAfter(_handlers', saw.key)
    /\ saw' = [saw EXCEPT !.pc = IF saw.pc = "woken" THEN "returned" ELSE "raised"]
    /\ hist' = [hist EXCEPT !.regs[<<saw.key, OneShot(saw.n)>>] =
                                IF InList(DictGetOr(_handlers', saw.key, <<>>), OneShot(saw.n))
                                THEN @ ELSE 0,
                            !.order[saw.key] = RemoveFirst(@, OneShot(saw.n)),
                            !.touched = Touch(saw.key, OneShot(saw.n)),
                            !.raised = IF saw.pc = "expired"
                                       THEN @ \cup {"TimeoutError"} ELSE @]
    /\ UNCHANGED <<_maxlen, _send, _recv, _running, pc, items, pending, batch, cur>>
    /\ UNCHANGED beyond

\* ------------------------------------------------------ BaseProxy.is_ready
\* the attributes an ExternalProxy has: those __init__ sets (start() sets
\* _running and _thread again and adds none)
ExternalProxyAttrs ==
    [_maxlen |-> _maxlen, _send |-> _send, _recv |-> _recv, _handlers |-> _handlers,
     _running |-> _running, _thread |-> pc]

\* getattr(self, name, None) is not None
HasAttr(obj, name) == name \in DOMAIN obj /\ obj[name] # "None"

\* is_ready: "return getattr(self, '_loop', None) is not None"
is_ready(obj) == HasAttr(obj, "_loop")

\* ------------------------------------------------- MavLinkExternalProxy
\* str(n) of a non-negative int
Digits == <<"0", "1", "2", "3", "4", "5", "6", "7", "8", "9">>
RECURSIVE Str(_)
Str(n) == IF n < 10 THEN Digits[n + 1]
          ELSE Str(n \div 10) \o Digits[(n % 10) + 1]

\* _io_read_once: what it puts out for one message of the link
MavPairsNoType(msg) ==
    << [key |-> "mav", msg |-> msg], [key |-> Str(msg.id), msg |-> msg] >>
MavPairs(msg) ==
    << [key |-> "mav", msg |-> msg],
       [key |-> Str(msg.id), msg |-> msg],
       [key |-> msg.type, msg |-> msg] >>

\* _io_read_once: "if not self.master: return []", else the pairs of every
\* message recv_match(blocking=False) hands out, in arrival order
RECURSIVE MavReadOnce(_, _)
MavReadOnce(m, waiting) ==
    IF m.state = "none" \/ waiting = <<>> THEN <<>>
    ELSE MavPairs(Head(waiting)) \o MavReadOnce(m, Tail(waiting))

\* the messages that may be waiting on the link when _io_read_once is called
Waiting(n) == UNION {[1..k -> MavMessages] : k \in 0..n}

\* the keys under which the driver delivers
MavKeys == {"mav"} \cup {Str(m.id) : m \in MavMessages} \cup {m.type : m \in MavMessages}

\* "for key, msg in self._io_read_once():" the call, on the MAVLink driver
MavReadStep(waiting) ==
    /\ pc = "read"
    /\ Len(master.read) + Len(waiting) <= MaxMsgs
    /\ batch' = MavReadOnce(master, waiting)
    /\ pc' = "recv"
    /\ hist' = [hist EXCEPT !.rx = @ \o MavReadOnce(master, waiting), !.mark = 0]
    /\ master' = [master EXCEPT !.read = @ \o waiting]
    /\ UNCHANGED <<_maxlen, _send, _recv, _handlers, _running, items, pending,
                   cur, it, saw, mavcall>>
    /\ UNCHANGED elsewhere

\* _io_write_once, "except Exception as exc: self._log.error(...)": what a
\* failed self.master.mav.send(msg) does to the loops over the batch
SendFailureEscapes == "raise"
OnSendFailure == "log"

\* _io_write_once, the two loops: self.master.mav.send(msg) for every message of
\* every key in turn; fails are the messages whose send raises an Exception.
\* Each call of mav.send is put down with the message, the number of calls
\* made before this batch, and whether it returned.
RECURSIVE MavSendAll(_, _, _)
MavSendAll(pairs, fails, at) ==
    IF pairs = <<>> THEN <<>>
    ELSE <<[msg |-> Head(pairs).msg, at |-> at, ok |-> Head(pairs).msg \notin fails]>>
         \o (IF Head(pairs).msg \in fails /\ OnSendFailure = "raise" THEN <<>>
             ELSE MavSendAll(Tail(pairs), fails, at))

\* _io_write_once(batches): "if not self.master: return", else the loops
MavWriteOnce(m, batches, fails) ==
    IF m.state = "none" THEN [tx |-> <<>>, raised |-> FALSE]
    ELSE [tx |-> MavSendAll(Flatten(batches), fails, Len(m.tx)),
          raised |-> OnSendFailure = "raise"
                     /\ \E i \in DOMAIN Flatten(batches) : Flatten(batches)[i].msg \in fails]

\* "if pending: self._io_write_once(pending)" on the MAVLink driver; an
\* exception that left _io_write_once would leave _run and end the thread
MavWriteStep(fails) ==
    /\ pc = "write"
    /\ fails \subseteq {Flatten(pending)[i].msg : i \in DOMAIN Flatten(pending)}
    /\ pc' = IF MavWriteOnce(master, pending, fails).raised THEN "died" ELSE "read"
    /\ pending' = <<>>
    /\ master' = [master EXCEPT !.tx = @ \o MavWriteOnce(master, pending, fails).tx]
    /\ hist' = [hist EXCEPT !.written = @ \o Flatten(pending),
                            !.burst.drains = IF @ = 1 THEN 2 ELSE @]
    /\ UNCHANGED <<_maxlen, _send, _recv, _handlers, _running, items, batch,
                   cur, it, saw, mavcall>>
    /\ UNCHANGED elsewhere

\* start(): self.master = mavutil.mavlink_connection(self.endpoint, ...)
MavConnect ==
    /\ CallerFree
    /\ pc = "none"
    /\ mavcall.last = "none"
    /\ master' = [master EXCEPT !.state = "open"]
    /\ mavcall' = [mavcall EXCEPT !.pc = "heartbeat"]
    /\ UNCHANGED <<_maxlen, _send, _recv, _handlers, _running, pc, items, pending,
                   batch, cur, it, saw, hist>>
    /\ UNCHANGED elsewhere

\* where start() goes after a wait_heartbeat(timeout=5) that saw one, or none
AfterHeartbeatAny(seen) == "launch"
AfterHeartbeat(seen) == IF seen THEN "launch" ELSE "heartbeat"

\* start(): "while not self.master.wait_heartbeat(timeout=5): log a warning"
MavWaitHeartbeat(seen) ==
    /\ mavcall.pc = "heartbeat"
    /\ seen \/ mavcall.warnings < MaxTimeouts
    /\ master' = [master EXCEPT !.heartbeat = seen]
    /\ mavcall' = [mavcall EXCEPT !.pc = AfterHeartbeat(seen),
                                  !.warnings = IF seen THEN @ ELSE @ + 1]
    /\ UNCHANGED <<_maxlen, _send, _recv, _handlers, _running, pc, items, pending,
                   batch, cur, it, saw, hist>>
    /\ UNCHANGED elsewhere

\* start(): self.ftp = MAVFTP(...); await super().start()
MavLaunch ==
    /\ mavcall.pc = "launch"
    /\ pc = "none"
    /\ _running' = TRUE
    /\ pc' = "loop"
    /\ mavcall' = [mavcall EXCEPT !.pc = "idle", !.last = "start"]
    /\ UNCHANGED <<_maxlen, _send, _recv, _handlers, items, pending, batch, cur,
                   it, saw, hist, master>>
    /\ UNCHANGED elsewhere

\* self._thread and self._thread.is_alive()
ThreadAlive == pc \notin {"none", "exited", "died"}

\* stop(): await super().stop(): self._running.clear()
MavStopClear ==
    /\ CallerFree
    /\ _running' = FALSE
    /\ mavcall' = [mavcall EXCEPT !.pc = IF ThreadAlive THEN "joining" ELSE "closing"]
    /\ UNCHANGED <<_maxlen, _send, _recv, _handlers, pc, items, pending, batch,
                   cur, it, saw, hist, master>>
    /\ UNCHANGED elsewhere

\* when self._thread.join(timeout=5) returns, given where the worker is
JoinReturnsOnExitOnly(worker) == worker = "exited"
JoinReturns(worker) == TRUE

\* stop(): self._thread.join(timeout=5) returns, the thread gone or the 5 s over
MavStopJoin ==
    /\ mavcall.pc = "joining"
    /\ JoinReturns(pc)
    /\ mavcall' = [mavcall EXCEPT !.pc = "closing", !.joined = (pc = "exited")]
    /\ UNCHANGED <<_maxlen, _send, _recv, _handlers, _running, pc, items, pending,
                   batch, cur, it, saw, hist, master>>
    /\ UNCHANGED elsewhere

\* stop(): "if self.master: self.master.close()", and the return
MavStopClose ==
    /\ mavcall.pc = "closing"
    /\ master' = IF master.state = "none" THEN master
                 ELSE [master EXCEPT !.state = "closed"]
    /\ mavcall' = [mavcall EXCEPT !.pc = "idle", !.last = "stop"]
    /\ UNCHANGED <<_maxlen, _send, _recv, _handlers, _running, pc, items, pending,
                   batch, cur, it, saw, hist>>
    /\ UNCHANGED elsewhere

\* ------------------------------------- ExternalProxy.start / stop, every thread
\* the bridge's state apart from the flag
bridge == <<_maxlen, _send, _recv, _handlers, pc, items, pending, batch, cur, it,
            saw, hist>>

\* the threads start() created that have not returned from _run
Looping == {i \in DOMAIN life.threads : life.threads[i] # "exited"}

\* start(): self._running.set(); self._thread = threading.Thread(target=self._run,
\* daemon=True); self._thread.start(). Nothing in it looks at an earlier thread.
LifeStart ==
    /\ life.pc = "idle"
    /\ Len(life.threads) < MaxStarts
    /\ _running' = TRUE
    /\ life' = [life EXCEPT !.threads = Append(@, "while")]
    /\ UNCHANGED <<bridge, master, mavcall, exe, lsm, prs, cfg>>

\* _run in thread i: "while self._running.is_set():"
LifeWhile(i) ==
    /\ i \in DOMAIN life.threads
    /\ life.threads[i] = "while"
    /\ life' = [life EXCEPT !.threads[i] = IF _running THEN "body" ELSE "exited"]
    /\ UNCHANGED <<bridge, _running, master, mavcall, exe, lsm, prs, cfg>>

\* _run in thread i: one iteration (drain and write, read and dispatch, sleep)
LifeBody(i) ==
    /\ i \in DOMAIN life.threads
    /\ life.threads[i] = "body"
    /\ life' = [life EXCEPT !.threads[i] = "while"]
    /\ UNCHANGED <<bridge, _running, master, mavcall, exe, lsm, prs, cfg>>

\* stop(): self._running.clear(); "if self._thread and self._thread.is_alive()"
\* looks at the thread created last
LifeStopClear ==
    /\ life.pc = "idle"
    /\ _running' = FALSE
    /\ life' = [life EXCEPT !.pc =
                   IF life.threads # <<>> /\ life.threads[Len(life.threads)] # "exited"
                   THEN "joining" ELSE "idle"]
    /\ UNCHANGED <<bridge, master, mavcall, exe, lsm, prs, cfg>>

\* stop(): self._thread.join(timeout=5) returns, and stop() with it
LifeStopJoin ==
    /\ life.pc = "joining"
    /\ JoinReturns(life.threads[Len(life.threads)])
    /\ life' = [life EXCEPT !.pc = "idle"]
    /\ UNCHANGED <<bridge, _running, master, mavcall, exe, lsm, prs, cfg>>

\* ---------------------------------------------------------- ROS1ExternalProxy
\* keys of the ROS 1 driver's send map: a topic and a service client
Ros1Keys == {"pub/chatter", "svc_client/reset"}

\* key.startswith("pub/"), key.startswith("svc_client/")
Ros1Prefix(key) ==
    CASE key = "pub/chatter"      -> "pub/"
      [] key = "svc_client/reset" -> "svc_client/"
      [] OTHER                    -> ""

\* self._pub_cache.get(topic), self._srv_client_cache.get(srv): nothing in the
\* class puts a publisher or a service proxy into the caches (the line creating
\* the publisher is commented out, and None is stored)
Ros1Cached(key) == "None"

\* _io_write_once(batches): "raise" when it leaves through an exception. Under a
\* "pub/" key pub.publish(m) is called on what the cache returned, outside any
\* try; under a "svc_client/" key a missing proxy is skipped and a call is made
\* inside try/except; any other key is ignored.
RECURSIVE Ros1WriteOnce(_)
Ros1WriteOnce(batches) ==
    IF batches = <<>> THEN "return"
    ELSE IF /\ Ros1Prefix(Head(batches).key) = "pub/"
            /\ Head(batches).val # <<>>
            /\ Ros1Cached(Head(batches).key) = "None"
         THEN "raise"
         ELSE Ros1WriteOnce(Tail(batches))

\* "if pending: self._io_write_once(pending)" on the ROS 1 driver: _run has no
\* try around the call, so an exception leaves _run and ends the thread
Ros1WriteStep ==
    /\ pc = "write"
    /\ pc' = IF Ros1WriteOnce(pending) = "raise" THEN "died" ELSE "read"
    /\ pending' = <<>>
    /\ UNCHANGED <<_maxlen, _send, _recv, _handlers, _running, items, batch,
                   cur, it, saw, hist>>
    /\ UNCHANGED beyond

\* --------------------------------------------------------------- MavLinkProxy
\* self._exe = concurrent.futures.ThreadPoolExecutor(max_workers=1)
max_workers == 1

\* everything but the MavLinkProxy
others == <<bridge, _running, master, mavcall, life, lsm, prs, cfg>>

\* the scheduler's thread is not inside a blocking call
SchedFree ==
    /\ CallerFree
    /\ \A t \in Tasks : exe.tasks[t].pc # "blocking"

\* _BlockingParser.__init__(self, endpoint, baud, debug, log_entries), called
\* with nargs positional arguments
ParserInitParams == <<"endpoint", "baud", "debug", "log_entries">>
ParserInit(nargs) == IF nargs = Len(ParserInitParams) THEN "parser" ELSE "TypeError"
\* start(): run_in_executor(self._exe, _BlockingParser, self.endpoint, self.baud,
\* self.debug)
StartArgs == <<"endpoint", "baud", "debug">>

\* the methods of _BlockingParser, and the one each helper of the proxy looks up
ParserMethods == {"list_ulogs", "download_ulog", "close"}
Method(op) ==
    CASE op = "list"     -> "list_ulogs"
      [] op = "download" -> "download_ulog"
      [] op = "clock"    -> "get_px4_time"

\* where "await self._loop.run_in_executor(...)" leaves the calling task: suspended,
\* with the scheduler's thread free for other tasks
AfterSubmitBlocks == "blocking"
AfterSubmit == "awaiting"

\* loop.run_in_executor(self._exe, fn, *args): a work item is put on the
\* executor's queue and the task awaits its future
Submit(e, t, op, cb) ==
    [e EXCEPT !.queue = Append(@, [id |-> e.nsub + 1, task |-> t, op |-> op, cb |-> cb]),
              !.nsub = @ + 1,
              !.tasks[t] = [pc |-> AfterSubmit, got |-> "none"]]

\* a call that raises on the scheduler's thread before anything is submitted
Raise(e, t, exc) == [e EXCEPT !.tasks[t] = [pc |-> "idle", got |-> exc]]

\* ThreadPoolExecutor.submit after shutdown(): "cannot schedule new futures
\* after shutdown"
SubmitOrRefuse(e, t, op, cb) ==
    IF e.down THEN Raise(e, t, "RuntimeError") ELSE Submit(e, t, op, cb)

\* start() called by task t: self._loop = asyncio.get_running_loop(); the
\* constructor call is handed to the executor
FtStart(t) ==
    /\ SchedFree
    /\ exe.tasks[t].pc = "idle"
    /\ exe.ncall < MaxCalls
    /\ exe' = [SubmitOrRefuse([exe EXCEPT !.loop = TRUE], t, "boot", "None")
                  EXCEPT !.ncall = @ + 1]
    /\ UNCHANGED others

\* list_ulogs(), download_ulog(remote_path, local_path, on_progress) and
\* get_px4_time() called by task t: self._loop.run_in_executor and the method of
\* self._parser are looked up first
FtCall(t, op, cb) ==
    /\ SchedFree
    /\ exe.tasks[t].pc = "idle"
    /\ exe.ncall < MaxCalls
    /\ cb # "None" => op = "download"
    /\ exe' = [(IF ~exe.loop \/ exe.parser = "None" \/ Method(op) \notin ParserMethods
                 THEN Raise(exe, t, "AttributeError")
                 ELSE SubmitOrRefuse(exe, t, op, cb))
                  EXCEPT !.ncall = @ + 1]
    /\ UNCHANGED others

\* stop()'s "await self._loop.run_in_executor(self._exe, self._parser.close)":
\* inline, close() would run on the scheduler's thread at once, whatever the
\* executor is doing; as the code has it, close is one more work item
StopCloseInline(e, t) ==
    [e EXCEPT !.running = @ \cup {[id |-> e.nsub + 1, task |-> t, op |-> "close",
                                   cb |-> "None"]},
              !.nsub = @ + 1,
              !.tasks[t] = [pc |-> "blocking", got |-> "none"]]
StopClose(e, t) == SubmitOrRefuse(e, t, "close", "None")

\* stop() called by task t: with no parser only the executor is shut down;
\* with one, close is handed to the executor first (self._loop is None until
\* start() was called)
FtStop(t) ==
    /\ SchedFree
    /\ exe.tasks[t].pc = "idle"
    /\ exe.ncall < MaxCalls
    /\ exe' = [(IF exe.parser = "None"
                 THEN [exe EXCEPT !.down = TRUE, !.tasks[t] = [pc |-> "idle", got |-> "None"]]
                 ELSE IF ~exe.loop THEN Raise(exe, t, "AttributeError")
                 ELSE StopClose(exe, t))
                  EXCEPT !.ncall = @ + 1]
    /\ UNCHANGED others

\* the executor has a thread for the next work item of its queue
PoolAlwaysHasThread(running) == TRUE
PoolHasThread(running) == Cardinality(running) < max_workers

\* a thread of the executor takes the oldest work item of the queue
PoolTake ==
    /\ exe.queue # <<>>
    /\ PoolHasThread(exe.running)
    /\ exe' = [exe EXCEPT !.queue = Tail(@),
                          !.running = @ \cup {Head(exe.queue)},
                          !.started = Append(@, Head(exe.queue).id)]
    /\ UNCHANGED others

\* how a work item can end: the constructor call as its arguments bind, a
\* parser's method by returning or by raising
Ends(job) ==
    IF job.op = "boot" THEN {ParserInit(Len(StartArgs))} ELSE {"ok", "error"}
AllEnds == {"ok", "error", "parser", "TypeError"}

\* the work item returns or raises: its future is done
PoolFinish(job, out) ==
    /\ job \in exe.running
    /\ out \in Ends(job)
    /\ exe' = [exe EXCEPT !.running = @ \ {job},
                          !.finished = @ \cup {[id |-> job.id, task |-> job.task,
                                                op |-> job.op, out |-> out]}]
    /\ UNCHANGED others

\* the scheduler resumes task t with the result or the exception of its future
\* (start() then keeps the parser: self._parser = await ...)
FtResume(t) ==
    /\ \/ exe.tasks[t].pc = "awaiting" /\ SchedFree
       \/ exe.tasks[t].pc = "blocking"
    /\ \E f \in exe.finished :
          /\ f.task = t
          /\ exe' = [exe EXCEPT !.finished = @ \ {f},
                                !.tasks[t] = [pc |-> "idle", got |-> f.out],
                                !.parser = IF f.op = "boot" /\ f.out = "parser"
                                           THEN "parser" ELSE @,
                                \* stop() goes on to self._exe.shutdown(wait=False)
                                !.down = IF f.op = "close" /\ f.out = "ok"
                                         THEN TRUE ELSE @]
    /\ UNCHANGED others

\* another task of the scheduler takes a step
OtherTask ==
    /\ SchedFree
    /\ exe.ticks < MaxTicks
    /\ exe' = [exe EXCEPT !.ticks = @ + 1, !.overlap = @ \/ exe.running # {}]
    /\ UNCHANGED others

\* asyncio.get_event_loop() called on a thread: the scheduler's thread has a
\* loop; a thread of the executor has none set, and the call raises
GetEventLoop(thread) == IF thread = "scheduler" THEN "loop" ELSE "RuntimeError"

\* _progress_cb(frac), called by MAVFTP.cmd_get on the thread that runs the
\* download: on_progress(frac) makes the coroutine there, and
\* run_coroutine_threadsafe gets it only if get_event_loop() returned a loop
ProgressCb(job, frac) ==
    /\ job \in exe.running
    /\ job.op = "download"
    /\ Len(exe.progress) < MaxProgress
    /\ exe' = IF frac = "None" \/ job.cb = "None" THEN exe
              ELSE [exe EXCEPT !.progress =
                       Append(@, [job |-> job.id, frac |-> frac,
                                  where |-> IF GetEventLoop("executor") = "loop"
                                            THEN "scheduler" ELSE "nowhere"])]
    /\ UNCHANGED others

\* ------------------------------------------------------ _match_ls_to_entries
\* sequences of at most MaxFiles sizes
SizeLists == UNION {[1..n -> 0..MaxSize] : n \in 0..MaxFiles}
\* a listing: (name, size) pairs, the i-th file named after its place
LsList(sizes) == [i \in DOMAIN sizes |-> [name |-> "f" \o Str(i), size |-> sizes[i]]]
\* a log index: id -> {"size": ..., "utc": ...}, ids 1..n, utc = 10 * id
EntryDict(sizes) == [id \in DOMAIN sizes |-> [size |-> sizes[id], utc |-> 10 * id]]

Abs(x) == IF x < 0 THEN -x ELSE x

\* sorted(..., key=lambda x: x[1], reverse=True): by size, largest first, files
\* of equal size in the order of the listing
InsertDesc(sorted, f) ==
    LET k == Cardinality({i \in DOMAIN sorted : sorted[i].size >= f.size})
    IN  SubSeq(sorted, 1, k) \o <<f>> \o SubSeq(sorted, k + 1, Len(sorted))
RECURSIVE SortBySizeDesc(_)
SortBySizeDesc(ls) ==
    IF ls = <<>> THEN <<>>
    ELSE InsertDesc(SortBySizeDesc(SubSeq(ls, 1, Len(ls) - 1)), ls[Len(ls)])

\* "for i, (name, sz) in enumerate(files): if abs(sz - info['size']) <=
\* threshold_size": the first such i, 0 if the loop ends without one
FirstFit(files, size, threshold_size) ==
    LET fits == {i \in DOMAIN files : Abs(files[i].size - size) <= threshold_size}
    IN  IF fits = {} THEN 0 ELSE CHOOSE i \in fits : \A j \in fits : i <= j

\* files.pop(i)
Pop(files, i) == SubSeq(files, 1, i - 1) \o SubSeq(files, i + 1, Len(files))

\* "for log_id, info in entries:" from log_id on, entries being sorted by id
RECURSIVE MatchFrom(_, _, _, _, _)
MatchFrom(log_id, files, entry_dict, threshold_size, mapping) ==
    IF log_id \notin DOMAIN entry_dict THEN mapping
    ELSE LET i == FirstFit(files, entry_dict[log_id].size, threshold_size) IN
         IF i = 0
         THEN MatchFrom(log_id + 1, files, entry_dict, threshold_size, mapping)
         ELSE MatchFrom(log_id + 1, Pop(files, i), entry_dict, threshold_size,
                        mapping @@ (log_id :> [name |-> files[i].name,
                                               size |-> files[i].size,
                                               utc  |-> entry_dict[log_id].utc]))

\* "if len(files) != len(entries):"
CountsDifferFewerOnly(files, entries) == Len(files) < Len(entries)
CountsDiffer(files, entries) == Len(files) # Len(entries)

\* _match_ls_to_entries(ls_list, entry_dict, threshold_size): the mapping, or
\* "ValueError" when the counts differ
MatchLsToEntries(ls_list, entry_dict, threshold_size) ==
    IF CountsDiffer(ls_list, entry_dict)
    THEN [raised |-> "ValueError", out |-> <<>>]
    ELSE [raised |-> "none",
          out |-> MatchFrom(1, SortBySizeDesc(ls_list), entry_dict, threshold_size, <<>>)]

\* the call of _match_ls_to_entries that a behaviour records
MatchCall(ls_list, entry_dict, threshold_size) ==
    /\ lsm = NoMatch
    /\ lsm' = [ls |-> ls_list, entries |-> entry_dict, tol |-> threshold_size,
               raised |-> MatchLsToEntries(ls_list, entry_dict, threshold_size).raised,
               out    |-> MatchLsToEntries(ls_list, entry_dict, threshold_size).out]
    /\ UNCHANGED <<bridge, _running, master, mavcall, life, exe, prs, cfg>>

\* ------------------------------------------------------- _BlockingParser._ls
\* def _ls(self, path, retries=5, delay=2.0)
retries == 5
\* the return codes MAVFTP.cmd_list gives to the successive attempts of one call
AckCodes == [1..retries -> 0..MaxCode]

\* the "soft reconnect": self.__init__(self.master.address, self.master.baud,
\* self.ftp.ftp_settings.debug)
ReconnectArgs == <<"address", "baud", "debug">>

\* "for n in range(1, retries + 1):" from attempt n on, after done reconnects
RECURSIVE LsFrom(_, _, _)
LsFrom(codes, n, done) ==
    IF n > retries
    THEN [raised |-> "RuntimeError", attempts |-> retries, reconnects |-> done, listed |-> 0]
    ELSE IF codes[n] = 0
    THEN [raised |-> "none", attempts |-> n, reconnects |-> done, listed |-> n]
    ELSE IF ParserInit(Len(ReconnectArgs)) = "TypeError"
    THEN [raised |-> "TypeError", attempts |-> n, reconnects |-> done, listed |-> 0]
    ELSE LsFrom(codes, n + 1, done + 1)

\* _ls(path) under the return codes the attempts get
Ls(codes) == LsFrom(codes, 1, 0)

\* a call of _ls
LsCall(codes) ==
    /\ prs.op = "none"
    /\ prs' = [op |-> "ls", arg |-> codes, raised |-> Ls(codes).raised, out |-> Ls(codes)]
    /\ UNCHANGED <<bridge, _running, master, mavcall, life, exe, lsm, cfg>>

\* ---------------------------------------------- _BlockingParser.list_ulogs
\* threshold_size: int = 4096, the default list_ulogs leaves in force; sizes are
\* counted in units of 4096 bytes
DefaultThresholdSize == 1

Opt(c, x) == IF c THEN <<x>> ELSE <<>>
Rev(s) == [i \in 1..Len(s) |-> s[Len(s) + 1 - i]]
FtpEntry(name, size_b, is_dir) == [name |-> name, size_b |-> size_b, is_dir |-> is_dir]

\* A stub of the SD card: what MAVFTP lists under the base path and under each
\* of its two directories. l1, l2 and l3 are the sizes of log1.ulg and log2.ulg
\* (first directory) and log3.ulg (second directory), -1 for a file that is not
\* there; with noise the card also has a file beside the directories, and a
\* text file and a directory named old.ulg inside the first directory; swap is
\* the order list(set(...)) happens to give.
Card(l1, l2, l3, noise, swap) ==
    LET ord(s) == IF swap THEN Rev(s) ELSE s IN
    [base |-> ord(<<FtpEntry("2023-01-01", 0, TRUE), FtpEntry("2023-01-02", 0, TRUE)>>
                  \o Opt(noise, FtpEntry("top.ulg", 1, FALSE))),
     dirs |-> [d \in {"2023-01-01", "2023-01-02"} |->
                 IF d = "2023-01-01"
                 THEN ord(Opt(l1 >= 0, FtpEntry("log1.ulg", l1, FALSE))
                          \o Opt(noise, FtpEntry("notes.txt", 1, FALSE))
                          \o Opt(l2 >= 0, FtpEntry("log2.ulg", l2, FALSE))
                          \o Opt(noise, FtpEntry("old.ulg", 0, TRUE)))
                 ELSE Opt(l3 >= 0, FtpEntry("log3.ulg", l3, FALSE))]]

\* name.endswith(".ulg")
EndsWithUlg(name) == name # "notes.txt"

\* _walk_ulogs, the inner loop: "for name, size, is_dir in self._ls(f'{base}/{date}')"
WalkDir(date, listing) ==
    LET kept == SelectSeq(listing, LAMBDA f : ~f.is_dir /\ EndsWithUlg(f.name))
    IN  [i \in 1..Len(kept) |->
            [name |-> "fs/microsd/log/" \o date \o "/" \o kept[i].name,
             size |-> kept[i].size_b]]

\* _walk_ulogs, the outer loop: "for date, _, is_dir in dates: if not is_dir: continue"
RECURSIVE WalkFrom(_, _)
WalkFrom(dates, card) ==
    IF dates = <<>> THEN <<>>
    ELSE (IF Head(dates).is_dir
          THEN WalkDir(Head(dates).name, card.dirs[Head(dates).name])
          ELSE <<>>)
         \o WalkFrom(Tail(dates), card)
WalkUlogs(card) == WalkFrom(card.base, card)

\* the log index the parser was built with: id -> size and utc; the ids 1..n,
\* the utc growing or falling with the id
LogEntries(sizes, newest_first) ==
    [id \in DOMAIN sizes |->
        [size |-> sizes[id],
         utc  |-> IF newest_first THEN 10 * (Len(sizes) + 1 - id) ELSE 10 * id]]

\* mapping.values(): in the order the ids were inserted, which is ascending
Values(mapping, n) ==
    LET ids == SelectSeq([i \in 1..n |-> i], LAMBDA i : i \in DOMAIN mapping)
    IN  [k \in 1..Len(ids) |-> mapping[ids[k]]]

\* result.sort(key=lambda x: x["utc"]): ascending, equal keys in their order
InsertAsc(sorted, r) ==
    LET k == Cardinality({i \in DOMAIN sorted : sorted[i].utc <= r.utc})
    IN  SubSeq(sorted, 1, k) \o <<r>> \o SubSeq(sorted, k + 1, Len(sorted))
RECURSIVE SortByUtc(_)
SortByUtc(result) ==
    IF result = <<>> THEN <<>>
    ELSE InsertAsc(SortByUtc(SubSeq(result, 1, Len(result) - 1)), result[Len(result)])

\* list_ulogs() on a card, the parser holding entries; every _ls succeeds at its
\* first attempt
ListUlogs(card, entries) ==
    LET ulog_files == WalkUlogs(card)
        m == MatchLsToEntries(ulog_files, entries, DefaultThresholdSize)
    IN  IF ulog_files = <<>> THEN [raised |-> "none", out |-> <<>>]
        ELSE IF m.raised # "none" THEN [raised |-> m.raised, out |-> <<>>]
        ELSE [raised |-> "none",
              out |-> SortByUtc([i \in 1..Len(Values(m.out, Len(entries))) |->
                         [remote_path |-> Values(m.out, Len(entries))[i].name,
                          size_bytes  |-> Values(m.out, Len(entries))[i].size,
                          utc         |-> Values(m.out, Len(entries))[i].utc]])]

\* a call of list_ulogs
ListCall(card, entries) ==
    /\ prs.op = "none"
    /\ prs' = [op |-> "list", arg |-> [card |-> card, entries |-> entries],
               raised |-> ListUlogs(card, entries).raised,
               out |-> ListUlogs(card, entries).out]
    /\ UNCHANGED <<bridge, _running, master, mavcall, life, exe, lsm, cfg>>

\* -------------------------------------------- _BlockingParser.download_ulog
\* _progress_cb(frac) on the thread that runs download_ulog, frac a number:
\* nothing without on_progress; else get_event_loop() must give a loop
ProgressCbRaises(on_progress, thread, fracs) ==
    /\ on_progress # "None"
    /\ fracs > 0
    /\ GetEventLoop(thread) = "RuntimeError"

\* "if ret.return_code != 0: raise RuntimeError"
OpenFailedIgnored(return_code) == FALSE
OpenFailed(return_code) == return_code # 0

\* shutil.move(tmp, local_path): the staging file becomes the local file; there
\* is nothing to move when the staging file does not exist
ShutilMove(staging) ==
    IF staging THEN [raised |-> "none", local |-> TRUE, staging |-> FALSE]
    ELSE [raised |-> "FileNotFoundError", local |-> FALSE, staging |-> FALSE]

\* local_path.stat()
Stat(exists) == IF exists THEN "none" ELSE "FileNotFoundError"

\* download_ulog(remote_path, local_path, on_progress): cmd_get answers
\* return_code after fracs progress callbacks; local and staging say whether
\* local_path and ftp.temp_filename exist once process_ftp_reply has returned.
\* The outcome: what was raised, whether the path was returned, whether the
\* files exist at the end, whether the staging file was moved.
DownloadUlog(return_code, local, staging, on_progress, thread, fracs) ==
    LET left(exc) == [raised |-> exc, returned |-> FALSE, local |-> local,
                      staging |-> staging, moved |-> FALSE]
        mv == ShutilMove(staging)
    IN  IF ProgressCbRaises(on_progress, thread, fracs) THEN left("RuntimeError")
        ELSE IF OpenFailed(return_code) THEN left("RuntimeError")
        ELSE IF ~local
        THEN IF mv.raised # "none" THEN left(mv.raised)
             ELSE IF Stat(mv.local) # "none" THEN left(Stat(mv.local))
             ELSE [raised |-> "none", returned |-> TRUE, local |-> mv.local,
                   staging |-> mv.staging, moved |-> TRUE]
        ELSE IF Stat(local) # "none" THEN left(Stat(local))
        ELSE [raised |-> "none", returned |-> TRUE, local |-> local,
              staging |-> staging, moved |-> FALSE]

\* a call of download_ulog
DownloadCall(return_code, local, staging, on_progress, thread, fracs) ==
    /\ prs.op = "none"
    /\ prs' = [op |-> "download",
               arg |-> [return_code |-> return_code, local |-> local,
                        staging |-> staging, on_progress |-> on_progress,
                        thread |-> thread, fracs |-> fracs],
               raised |-> DownloadUlog(return_code, local, staging,
                                       on_progress, thread, fracs).raised,
               out |-> DownloadUlog(return_code, local, staging,
                                    on_progress, thread, fracs)]
    /\ UNCHANGED <<bridge, _running, master, mavcall, life, exe, lsm, cfg>>

\* --------------------------------------------- _BlockingParser.get_px4_time
\* The method is called by MavLinkProxy.get_px4_time and by the tests; its body
\* is not in this source tree. It is modelled from the specification: the
\* admissible timestamp fields in their priority order, a validation error for
\* a reply with none of them, a timeout error for no reply.
TimeFieldsBootFirst == <<"time_boot_ms", "time_utc", "time_usec", "_timestamp">>
TimeFields == <<"time_utc", "time_boot_ms", "time_usec", "_timestamp">>

\* what recv_match answers: None (no reply within the bound), or a message
\* with some of the fields
NoReply == [reply |-> FALSE, fields |-> {}]
ClockReplies ==
    {NoReply} \cup {[reply |-> TRUE, fields |-> s] :
                      s \in SUBSET {TimeFields[i] : i \in DOMAIN TimeFields}}

RECURSIVE FirstPresent(_, _)
FirstPresent(fields, msg) ==
    IF fields = <<>> THEN "none"
    ELSE IF Head(fields) \in msg THEN Head(fields)
    ELSE FirstPresent(Tail(fields), msg)

GetPx4Time(msg) ==
    IF ~msg.reply THEN [raised |-> "TimeoutError", source |-> "none"]
    ELSE IF FirstPresent(TimeFields, msg.fields) = "none"
    THEN [raised |-> "ValueError", source |-> "none"]
    ELSE [raised |-> "none", source |-> FirstPresent(TimeFields, msg.fields)]

\* a call of get_px4_time, recv_match answering msg
ClockCall(msg) ==
    /\ prs.op = "none"
    /\ prs' = [op |-> "clock", arg |-> msg, raised |-> GetPx4Time(msg).raised,
               out |-> GetPx4Time(msg)]
    /\ UNCHANGED <<bridge, _running, master, mavcall, life, exe, lsm, cfg>>

\* ----------------------------------------------------------- specifications
\* The worker thread is the same in every specification; they differ in what the
\* caller's thread does and in what the driver's _io_read_once returns.
Worker(batches, results) ==
    \/ LoopCheck
    \/ DrainStep
    \/ WriteStep
    \/ \E b \in batches : ReadStep(b)
    \/ RecvStep
    \/ \E r \in results : DispatchStep(r)

\* ------------------------------------------------------------- config_api
\* request.action.upper()
Actions == {"ON", "off", "toggle"}
Upper(action) ==
    CASE action = "off"    -> "OFF"
      [] action = "toggle" -> "TOGGLE"
      [] OTHER             -> action

\* the lists of names a request may carry (the empty one included)
NameLists(names) == UNION {[1..n -> names] : n \in 0..MaxNames}

\* "missing_deps = [dep for dep in required_deps if dep not in enabled_proxies]"
MissingDepsNone(required_deps, enabled_proxies) == {}
MissingDeps(required_deps, enabled_proxies) == required_deps \ enabled_proxies

\* "for name, deps in dependencies.items(): if name in enabled and proxy_name in
\* deps": the enabled petals (or proxies) that depend on proxy_name
Dependents(dependencies, enabled, proxy_name) ==
    {name \in DOMAIN dependencies : name \in enabled /\ proxy_name \in dependencies[name]}

\* an entry appended to results, or to errors
Done(st, enabled) == [st EXCEPT !.enabled = enabled, !.results = @ + 1]
Refused(st) == [st EXCEPT !.errors = @ + 1]

\* control_petals, "for petal_name in request.petals:" from the i-th name on;
\* st holds the enabled_petals set, len(results) and len(errors)
RECURSIVE PetalsLoop(_, _, _, _, _)
PetalsLoop(petals, i, enable_petals, c, st) ==
    IF i > Len(petals) THEN st
    ELSE LET petal_name == petals[i]
             missing_deps == MissingDeps(Deps(c.petal_dependencies, petal_name),
                                         c.enabled_proxies)
         IN  PetalsLoop(petals, i + 1, enable_petals, c,
                 IF enable_petals
                 THEN IF missing_deps # {} THEN Refused(st)
                      ELSE Done(st, st.enabled \cup {petal_name})
                 ELSE Done(st, st.enabled \ {petal_name}))

\* control_proxies, "for proxy_name in request.petals:" from the i-th name on;
\* st holds the enabled_proxies set, len(results) and len(errors)
RECURSIVE ProxiesLoop(_, _, _, _, _)
ProxiesLoop(proxies, i, enable_proxies, c, st) ==
    IF i > Len(proxies) THEN st
    ELSE LET proxy_name == proxies[i]
             missing_deps == MissingDeps(Deps(c.proxy_dependencies, proxy_name),
                                         st.enabled)
             dependent_petals == Dependents(c.petal_dependencies, c.enabled_petals,
                                            proxy_name)
             dependent_proxies == Dependents(c.proxy_dependencies, st.enabled,
                                             proxy_name)
         IN  ProxiesLoop(proxies, i + 1, enable_proxies, c,
                 IF enable_proxies
                 THEN IF missing_deps # {} THEN Refused(st)
                      ELSE Done(st, st.enabled \cup {proxy_name})
                 ELSE IF dependent_petals # {} \/ dependent_proxies # {}
                      THEN Refused(st)
                      ELSE Done(st, st.enabled \ {proxy_name}))

\* the frame of the config API's requests
apart == <<bridge, _running, master, mavcall, life, exe, lsm, prs>>

\* POST /petals/control: 400 for an action that is not ON or OFF and for an
\* empty list; otherwise the file is read, the names are gone through in order,
\* and enabled_petals is written back
control_petals(petals, action) ==
    /\ cfg' = IF Upper(action) \notin {"ON", "OFF"} \/ petals = <<>>
              THEN [cfg EXCEPT !.last = [endpoint |-> "petals", status |-> 400,
                                         results |-> 0, errors |-> 0]]
              ELSE LET st == PetalsLoop(petals, 1, Upper(action) = "ON", cfg,
                                        [enabled |-> cfg.enabled_petals,
                                         results |-> 0, errors |-> 0])
                   IN  [cfg EXCEPT !.enabled_petals = st.enabled,
                                   !.last = [endpoint |-> "petals", status |-> 200,
                                             results |-> st.results,
                                             errors |-> st.errors]]
    /\ UNCHANGED apart

\* POST /proxies/control: the same for enabled_proxies, with the check of the
\* dependents before a proxy is disabled
control_proxies(proxies, action) ==
    /\ cfg' = IF Upper(action) \notin {"ON", "OFF"} \/ proxies = <<>>
              THEN [cfg EXCEPT !.last = [endpoint |-> "proxies", status |-> 400,
                                         results |-> 0, errors |-> 0]]
              ELSE LET st == ProxiesLoop(proxies, 1, Upper(action) = "ON", cfg,
                                         [enabled |-> cfg.enabled_proxies,
                                          results |-> 0, errors |-> 0])
                   IN  [cfg EXCEPT !.enabled_proxies = st.enabled,
                                   !.last = [endpoint |-> "proxies", status |-> 200,
                                             results |-> st.results,
                                             errors |-> st.errors]]
    /\ UNCHANGED apart

\* The bus: a caller that sends (and starts and stops the bridge), a driver that
\* delivers inbound pairs, no callback registered.
NextBus ==
    \/ \E key \in Keys : send(key, {}, 1)
    \/ start
    \/ stop
    \/ Worker(Batches(MaxReads, {"a"}), {"return"})

SpecBus == Init /\ [][NextBus]_vars

\* Halting: the bus with a worker thread that is scheduled as long as it has a
\* step to take (the driver primitives and the callbacks return).
NextHalt ==
    \/ \E key \in {"mav"} : send(key, {}, 1)
    \/ start
    \/ stop
    \/ Worker(Batches(MaxReads, {"a"}), {"return"})
SpecHalt ==
    Init /\ [][NextHalt]_vars /\ WF_vars(Worker(Batches(MaxReads, {"a"}), {"return"}))

\* Restarting: the bus with a caller that starts the bridge again after the
\* worker has left _run, sending on one key before, between and after.
NextRestart ==
    \/ \E key \in {"mav"} : SendCall(key, {}, 1, TRUE)
    \/ start
    \/ stop
    \/ restart
    \/ Worker(Batches(MaxReads, {"a"}), {"return"})
SpecRestart == Init /\ [][NextRestart]_vars

\* Bursts: a caller that passes burst_count and burst_interval to send().
NextBurst ==
    \/ \E key \in Keys : send(key, {}, 1)
    \/ \E key \in Keys, count \in 2..MaxBurst :
            send(key, {"burst_count", "burst_interval"}, count)
    \/ start
    \/ Worker(Batches(MaxReads, {"a"}), {"return"})

SpecBurst == Init /\ [][NextBurst]_vars

\* The registry: a caller that registers and unregisters callbacks while the
\* worker dispatches what the driver delivers.
NextReg ==
    \/ \E key \in Keys, fn \in UserHandlers : register_handler(key, fn, {})
    \/ \E key \in Keys, fn \in UserHandlers : unregister_handler(key, fn)
    \/ start
    \/ Worker(Batches(MaxReads, {"a"}), {"return", "raise"})

SpecReg == Init /\ [][NextReg]_vars

\* Duplicate filtering: a caller that asks for a filtered callback.
NextFilter ==
    \/ \E key \in Keys, fn \in UserHandlers :
            register_handler(key, fn, {"duplicate_filter_interval"})
    \/ \E key \in Keys, fn \in UserHandlers : register_handler(key, fn, {})
    \/ start
    \/ Worker(Batches(MaxReads, {"a"}), {"return"})

SpecFilter == Init /\ [][NextFilter]_vars

\* Request / reply: a caller that keeps a callback of its own registered and
\* calls send_and_wait.
NextWait ==
    \/ \E key \in Keys : register_handler(key, <<"h", 1>>, {})
    \/ \E key \in Keys : SawSend(key)
    \/ SawRegister
    \/ SawWake
    \/ SawReturn
    \/ start
    \/ Worker(Batches(MaxReads, {"a"}), {"return", "true", "false", "error"})

SpecWait == Init /\ [][NextWait]_vars

\* The MAVLink driver: a caller that registers callbacks, starts the driver and
\* stops it, a link that delivers messages.
NextMav ==
    \/ \E key \in MavKeys : register_handler(key, <<"h", 1>>, {})
    \/ MavConnect
    \/ \E seen \in BOOLEAN : MavWaitHeartbeat(seen)
    \/ MavLaunch
    \/ MavStopClear
    \/ MavStopJoin
    \/ MavStopClose
    \/ LoopCheck
    \/ DrainStep
    \/ WriteStep
    \/ \E waiting \in Waiting(MaxMsgs) : MavReadStep(waiting)
    \/ RecvStep
    \/ \E r \in {"return"} : DispatchStep(r)

SpecMav == Init /\ [][NextMav]_vars

\* The same driver with no callback registered, and with what stop() can rely
\* on: join(timeout=5) returns after 5 s at the latest, and close() returns.
NextStop ==
    \/ MavConnect
    \/ \E seen \in BOOLEAN : MavWaitHeartbeat(seen)
    \/ MavLaunch
    \/ MavStopClear
    \/ MavStopJoin
    \/ MavStopClose
    \/ LoopCheck
    \/ DrainStep
    \/ WriteStep
    \/ \E waiting \in Waiting(MaxMsgs) : MavReadStep(waiting)
    \/ RecvStep
    \/ \E r \in {"return"} : DispatchStep(r)
SpecMavFair ==
    Init /\ [][NextStop]_vars /\ WF_vars(MavStopJoin) /\ WF_vars(MavStopClose)

\* start() and stop() in any order, and the threads they leave behind
NextLife ==
    \/ LifeStart
    \/ \E i \in 1..MaxStarts : LifeWhile(i)
    \/ \E i \in 1..MaxStarts : LifeBody(i)
    \/ LifeStopClear
    \/ LifeStopJoin
SpecLife == Init /\ [][NextLife]_vars

\* The MAVLink driver writing: a caller that sends while the worker drains and
\* writes; nothing arrives on the link.
NextMavWrite ==
    \/ \E key \in Keys : send(key, {}, 1)
    \/ MavConnect
    \/ \E seen \in {TRUE} : MavWaitHeartbeat(seen)
    \/ MavLaunch
    \/ LoopCheck
    \/ DrainStep
    \/ \E fails \in SUBSET (1..MaxSends) : MavWriteStep(fails)
    \/ \E waiting \in {<<>>} : MavReadStep(waiting)
    \/ RecvStep
SpecMavWrite == Init /\ [][NextMavWrite]_vars

\* The ROS 1 driver: a caller that sends on a topic and to a service client;
\* its _io_read_once returns [].
NextIO ==
    \/ \E key \in Ros1Keys : send(key, {}, 1)
    \/ start
    \/ stop
    \/ LoopCheck
    \/ DrainStep
    \/ Ros1WriteStep
    \/ \E b \in {<<>>} : ReadStep(b)
    \/ RecvStep
SpecIO == Init /\ [][NextIO]_vars

\* The MavLinkProxy: tasks of the scheduler that call its helpers, the threads
\* of its executor, MAVFTP reporting progress.
NextFt ==
    \/ \E t \in Tasks : FtStart(t)
    \/ \E t \in Tasks, op \in {"list", "download", "clock"}, cb \in {"None", "coro"} :
            FtCall(t, op, cb)
    \/ \E t \in Tasks : FtStop(t)
    \/ PoolTake
    \/ \E job \in exe.running, out \in AllEnds : PoolFinish(job, out)
    \/ \E t \in Tasks : FtResume(t)
    \/ OtherTask
    \/ \E job \in exe.running, frac \in {"None", "0.5"} : ProgressCb(job, frac)
SpecFt == InitFt /\ [][NextFt]_vars

\* The scheduler: a task inside send_and_wait, the worker that dispatches the
\* replies, and the other tasks of the scheduler.
NextSched ==
    \/ \E key \in Keys : SawSend(key)
    \/ SawRegister
    \/ SawWake
    \/ SawReturn
    \/ start
    \/ Worker(Batches(MaxReads, {"a"}), {"true", "false", "error"})
    \/ OtherTask
SpecSched == Init /\ [][NextSched]_vars

\* Log matching: _match_ls_to_entries called with any listing, index and
\* tolerance.
NextMatch ==
    /\ lsm = NoMatch
    /\ \E files \in SizeLists, entries \in SizeLists, threshold_size \in 0..MaxTol :
          MatchCall(LsList(files), EntryDict(entries), threshold_size)
SpecMatch == Init /\ [][NextMatch]_vars

\* The parser: one call of a method of _BlockingParser on a stub of MAVFTP.
NextParser ==
    \/ \E codes \in AckCodes : LsCall(codes)
    \/ \E return_code \in 0..MaxCode, local, staging \in BOOLEAN,
          on_progress \in {"None", "on_progress"},
          thread \in {"scheduler", "executor"}, fracs \in 0..MaxProgress :
          DownloadCall(return_code, local, staging, on_progress, thread, fracs)
    \/ \E msg \in ClockReplies : ClockCall(msg)
SpecParser == Init /\ [][NextParser]_vars

\* Listing: one call of list_ulogs on a stub of the card.
NextList ==
    /\ prs.op = "none"
    /\ \E l1, l2, l3 \in (-1)..MaxSize, noise, swap, newest_first \in BOOLEAN,
          sizes \in SizeLists :
          ListCall(Card(l1, l2, l3, noise, swap), LogEntries(sizes, newest_first))
SpecList == Init /\ [][NextList]_vars

\* The config API: requests with any names (for the proxies one that no
\* dependency map lists, too), in any order.
NextConfig ==
    \/ \E petals \in NameLists(PetalNames), action \in Actions :
          control_petals(petals, action)
    \/ \E proxies \in NameLists(ProxyNames \cup {Unlisted}), action \in Actions :
          control_proxies(proxies, action)
SpecConfig == InitConfig /\ [][NextConfig]_vars

\* ------------------------------------------------------------------ claims
\* occurrences of x in the values of a dict of sequences
RECURSIVE InDict(_, _)
InDict(d, x) ==
    IF d = <<>> THEN 0 ELSE Count(Head(d).val, x) + InDict(Tail(d), x)

\* the last n entries of a sequence
LastN(n, q) == IF Len(q) <= n THEN q ELSE SubSeq(q, Len(q) - n + 1, Len(q))

\* places a sent message is found in: a send deque, the drained dict of the
\* running iteration, what _io_write_once was given, what an append pushed out
Occurrences(m) ==
    InDict(_send, m) + InDict(pending, m)
    + Cardinality({i \in DOMAIN hist.written : hist.written[i].msg = m})
    + (IF m \in hist.evicted THEN 1 ELSE 0)

\* C1: under every interleaving of send() with the worker's drain, a message
\* that send() enqueued is at any time in exactly one place: still in its send
\* deque, drained into the pending dict of the running iteration, given to
\* _io_write_once (once), or evicted by overflow; what an iteration drained it
\* gives to _io_write_once before it goes on to read; and when an iteration
\* has written, every message enqueued before that iteration began has been
\* given to _io_write_once or was evicted.
C1_ExactlyOnce ==
    /\ \A m \in hist.sent : Occurrences(m) = 1
    /\ \A m \in (1..MaxSends) \ hist.sent : Occurrences(m) = 0
    /\ pc \notin {"drain", "write"} => pending = <<>>
    /\ pc = "read" =>
          \A m \in hist.sent :
              m <= hist.mark =>
                  \/ m \in hist.evicted
                  \/ \E i \in DOMAIN hist.written : hist.written[i].msg = m

\* a send() lands while the worker is in the middle of draining, after an
\* earlier iteration has written
C1_Witness ==
    /\ pc = "drain"
    /\ pending # <<>>
    /\ hist.written # <<>>
    /\ \E i \in DOMAIN _send : _send[i].val # <<>> /\ _send[i].key = Head(items)
    /\ Cardinality(hist.sent) = MaxSends

\* the objects of the pairs delivered so far on a key, in delivery order
RxOn(key) ==
    LET idx == SelectSeq([i \in 1..hist.nread |-> i], LAMBDA i : hist.rx[i].key = key)
    IN  [j \in 1..Len(idx) |-> Obj(idx[j], hist.rx[idx[j]].msg)]

C6_BurstDelivered ==
    (hist.burst.count > 0 /\ hist.burst.drains = 2) =>
        Cardinality({i \in DOMAIN hist.written :
                        hist.written[i] = [key |-> hist.burst.key, msg |-> hist.burst.msg]})
            = hist.burst.count

\* how often the dispatch of cur has invoked a callback
Invoked(cb) == hist.calls[cb]

\* how often a callback is registered under the key of cur
OnCurKey(cb) == Count(DictGetOr(_handlers, cur.key, <<>>), cb)

\* the dispatch of cur has run to its end (the iterator is exhausted)
DispatchOver == pc = "recv" /\ cur.n > 0

\* C3: when the dispatch of a delivered pair is over, every callback whose
\* registrations under the pair's key were not changed while it ran has been
\* invoked once per registration it has under that key (not at all when it has
\* none there, whatever it has under another key).
C3_EveryHandlerOnce ==
    DispatchOver =>
        \A h \in UserHandlers \ hist.touched : Invoked(h) = OnCurKey(h)

\* C4: when the dispatch of a delivered pair during which a callback raised is
\* over, every callback that stayed registered under the key has still been
\* invoked once per registration, those after the one that raised included.
C4_RaiseDoesNotStopDispatch ==
    (DispatchOver /\ hist.failed) =>
        \A h \in UserHandlers \ hist.touched : Invoked(h) = OnCurKey(h)

C8_KeyIffHandler ==
    /\ [](\A key \in Keys :
            /\ DictHas(_handlers, key) <=> \E fn \in Handlers : hist.regs[<<key, fn>>] > 0
            /\ \A fn \in Handlers :
                 Count(DictGetOr(_handlers, key, <<>>), fn) = hist.regs[<<key, fn>>])
    /\ [][(_handlers' # _handlers \/ hist'.raised # hist.raised) =>
            \A key \in Keys, fn \in UserHandlers :
                hist.regs[<<key, fn>>] = 0 => ~unregister_handler(key, fn)]_vars

\* the last callback of a key was unregistered while the worker was
\* dispatching on that key: the key is gone, another key is still there
C8_Witness ==
    /\ pc = "dispatch"
    /\ \E h \in UserHandlers : Invoked(h) > 0
    /\ ~DictHas(_handlers, cur.key)
    /\ _handlers # <<>>

\* C7: once register_handler(key, fn, duplicate_filter_interval=d) has been
\* called and the worker has, within one loop iteration after the call (that
\* is, less than any d apart), dispatched two identical messages on key, fn has
\* been invoked for exactly one of them.
C7_DuplicateSuppressed ==
    (hist.dfi.made /\ hist.dfi.same = 2) => hist.dfi.inv = 1

\* the callbacks that callers other than send_and_wait keep under a key
OthersOn(key) == {fn \in UserHandlers : hist.regs[<<key, fn>>] > 0}

\* C9: when send_and_wait has returned or has raised TimeoutError, its closure
\* is not in the list of match_key, and match_key is in the registry only if
\* another callback is registered under it.
C9_NoResidualHandler ==
    saw.pc \in {"returned", "raised"} =>
        /\ ~InList(DictGetOr(_handlers, saw.key, <<>>), OneShot(saw.n))
        /\ DictHas(_handlers, saw.key) => OthersOn(saw.key) # {}

\* send_and_wait timed out with its closure the only callback of match_key,
\* after the worker had called the closure: the key is gone
C9_Witness ==
    /\ saw.pc = "raised"
    /\ OthersOn(saw.key) = {}
    /\ ~DictHas(_handlers, saw.key)
    /\ Invoked(OneShot(saw.n)) > 0
    /\ _handlers # <<>>

\* C10: send_and_wait raises TimeoutError only if, when its wait ended, the
\* collector of this call had returned True for no message dispatched to it,
\* and returns normally only if, when its wait ended, the collector had
\* returned True for one.
C10_TimeoutIffUnsatisfied ==
    /\ saw.pc \in {"expired", "raised"} => saw.wake = 0
    /\ saw.pc = "raised" => "TimeoutError" \in hist.raised
    /\ saw.pc \in {"woken", "returned"} => saw.wake = 1 /\ hist.sat

\* the wait timed out although the worker had called the closure: the
\* collector raised, which the closure swallowed
C10_Witness ==
    /\ saw.pc = "raised"
    /\ Invoked(OneShot(saw.n)) > 0
    /\ hist.failed
    /\ ~hist.sat

C13_StopReturnsClosed ==
    /\ [](mavcall.last = "stop" /\ mavcall.pc = "idle" =>
              /\ ~_running
              /\ master.state # "open")
    /\ [][mavcall.pc = "joining" /\ mavcall'.pc # "joining" =>
              mavcall'.pc = "closing" /\ ~_running]_vars
    /\ (mavcall.pc \in {"joining", "closing"})
           ~> (mavcall.pc = "idle" /\ mavcall.last = "stop")

\* stop() has returned with the connection closed although the worker had not
\* exited when join() returned, and is still in a dispatch
C13_Witness ==
    /\ mavcall.last = "stop"
    /\ mavcall.pc = "idle"
    /\ ~mavcall.joined
    /\ pc = "dispatch"
    /\ master.state = "closed"

\* C14: until a wait_heartbeat() of start() has seen a heartbeat the worker
\* thread does not exist (so nothing is read, written or dispatched) and the
\* flag is not set; a wait_heartbeat() that times out leaves start() waiting
\* for the next one and raises nothing.
C14_LoopAfterHeartbeat ==
    /\ [](~master.heartbeat =>
              /\ pc = "none"
              /\ ~_running
              /\ hist.rx = <<>> /\ hist.written = <<>> /\ master.read = <<>>
              /\ hist.calls = NoCalls)
    /\ [][mavcall'.warnings > mavcall.warnings =>
              /\ mavcall'.pc = "heartbeat"
              /\ pc' = "none"
              /\ hist'.raised = hist.raised]_vars

\* the worker dispatches a message of the link after start() had a
\* wait_heartbeat() time out and a later one succeed
C14_Witness ==
    /\ mavcall.warnings > 0
    /\ master.heartbeat
    /\ pc = "dispatch"
    /\ master.read # <<>>

\* C12: at any time at most one thread that start() created is inside the
\* loop of _run (has been started and has not left the while loop), whatever
\* the order of the start() and stop() calls.
C12_AtMostOneLoop == Cardinality(Looping) <= 1

\* C15: an exception of one _io_write_once or _io_read_once call does not end
\* the worker thread: while the flag is set the thread that start() created is
\* still in its loop.
C15_IOFailureSurvived == _running => pc # "died"

\* C16: the executor of the MavLinkProxy runs at most one work item at any
\* time, and the work items begin in the order in which the callers submitted
\* them (ids are given in submission order).
C16_OneAtATimeInOrder ==
    /\ Cardinality(exe.running) <= 1
    /\ exe.started = [i \in 1..Len(exe.started) |-> i]
    /\ \A job \in exe.running : \A q \in DOMAIN exe.queue : job.id < exe.queue[q].id

\* a listing of one task is running while a download of another task waits in
\* the queue
C16_Witness ==
    /\ \E job \in exe.running : job.op = "list"
    /\ \E q \in DOMAIN exe.queue :
          /\ exe.queue[q].op = "download"
          /\ \A job \in exe.running : job.task # exe.queue[q].task

\* the work items of task t that are queued, running, or done and not delivered
Outstanding(t) ==
    {exe.queue[q].id : q \in {x \in DOMAIN exe.queue : exe.queue[x].task = t}}
    \cup {job.id : job \in {x \in exe.running : x.task = t}}
    \cup {f.id : f \in {x \in exe.finished : x.task = t}}

\* C17: while a work item of the MavLinkProxy runs on the executor the
\* scheduler's thread is in no blocking call and another task can take a step;
\* a task is suspended exactly while a work item of its own is outstanding, and
\* it is resumed with the result or the exception of that work item.
C17_SchedulerFreeWhileTransfer ==
    /\ [](exe.running # {} =>
              /\ SchedFree
              /\ exe.ticks < MaxTicks => ENABLED OtherTask)
    /\ [](\A t \in Tasks :
              /\ exe.tasks[t].pc \in {"idle", "awaiting"}
              /\ exe.tasks[t].pc = "awaiting" <=> Outstanding(t) # {}
              /\ Cardinality(Outstanding(t)) <= 1)
    /\ [][\A t \in Tasks :
              exe.tasks[t].pc = "awaiting" /\ exe'.tasks[t].pc = "idle" =>
                  \E f \in exe.finished : f.task = t /\ exe'.tasks[t].got = f.out]_vars

\* another task took a step while a download was running on the executor, and
\* the task that asked for the download is still suspended
C17_Witness ==
    /\ exe.overlap
    /\ \E job \in exe.running :
          job.op = "download" /\ exe.tasks[job.task].pc = "awaiting"

\* C18: while send_and_wait waits for its collector (in done.wait(timeout)) the
\* scheduler's thread is in no blocking call, and another task of the scheduler
\* can take a step.
C18_SchedulerFreeWhileWaiting ==
    saw.pc = "waiting" =>
        /\ SchedFree
        /\ exe.ticks < MaxTicks => ENABLED OtherTask

\* C19: every on_progress invocation that _progress_cb produced during a
\* download has been handed to the scheduler's loop, none is executed on the
\* executor's thread and none is lost.
C19_ProgressOnScheduler ==
    \A i \in DOMAIN exe.progress : exe.progress[i].where = "scheduler"

\* the file (by its place in the listing) an id is mapped to
FileOf(id) == CHOOSE i \in DOMAIN lsm.ls : lsm.ls[i].name = lsm.out[id].name
\* the entries and files of the call are as many, and every entry has a file of
\* the listing within the tolerance
EveryEntryHasFile ==
    /\ Len(lsm.ls) = Len(lsm.entries)
    /\ \A id \in DOMAIN lsm.entries :
          \E i \in DOMAIN lsm.ls : Abs(lsm.ls[i].size - lsm.entries[id].size) <= lsm.tol
\* the ways to give every entry a file of its own within the tolerance
Assignments ==
    {a \in [DOMAIN lsm.entries -> DOMAIN lsm.ls] :
        /\ \A x, y \in DOMAIN a : x # y => a[x] # a[y]
        /\ \A id \in DOMAIN a : Abs(lsm.ls[a[id]].size - lsm.entries[id].size) <= lsm.tol}

\* C20: when _match_ls_to_entries was given N entries and N files and every
\* entry has a file within the tolerance, the mapping it returned has every id,
\* no file under two ids, and under every id a file whose size differs from the
\* entry's by at most the tolerance.
C20_EveryIdMatched ==
    lsm # NoMatch /\ EveryEntryHasFile =>
        /\ lsm.raised = "none"
        /\ DOMAIN lsm.out = DOMAIN lsm.entries
        /\ \A x, y \in DOMAIN lsm.out : x # y => FileOf(x) # FileOf(y)
        /\ \A id \in DOMAIN lsm.out :
              Abs(lsm.out[id].size - lsm.entries[id].size) <= lsm.tol

\* a call after which an id has no file although the files can be given to the
\* entries one each within the tolerance
C20_Witness ==
    /\ lsm # NoMatch
    /\ lsm.raised = "none"
    /\ EveryEntryHasFile
    /\ Assignments # {}
    /\ DOMAIN lsm.out # DOMAIN lsm.entries

\* C21: a call of _match_ls_to_entries raises ValueError exactly when the number
\* of files differs from the number of entries, and it then returns no mapping:
\* no id has been paired with a file.
C21_CountMismatchRaises ==
    lsm # NoMatch =>
        /\ lsm.raised = "ValueError" <=> Len(lsm.ls) # Len(lsm.entries)
        /\ lsm.raised = "ValueError" => lsm.out = <<>>

\* a call with one file more than entries raised, although the entry has a
\* file of its own size in the listing
C21_Witness ==
    /\ lsm.raised = "ValueError"
    /\ Len(lsm.ls) = Len(lsm.entries) + 1
    /\ lsm.entries # <<>>
    /\ \E i \in DOMAIN lsm.ls : lsm.ls[i].size = lsm.entries[1].size

\* the attempts of the call whose listing succeeded
Succeeded == {n \in 1..retries : prs.arg[n] = 0}
FirstSuccess == CHOOSE n \in Succeeded : \A k \in Succeeded : n <= k

\* C24: a call of _ls makes at most N = retries attempts; when an attempt
\* succeeds it returns the listing of the first one that does, having made no
\* attempt after it and one reconnect after each failed attempt before it; it
\* raises only when all N attempts failed.
C24_LsRetries ==
    prs.op = "ls" =>
        /\ prs.out.attempts <= retries
        /\ Succeeded # {} =>
              /\ prs.raised = "none"
              /\ prs.out.listed = FirstSuccess
              /\ prs.out.attempts = FirstSuccess
              /\ prs.out.reconnects = FirstSuccess - 1
        /\ prs.raised # "none" => Succeeded = {}

\* the paths of the log files on the card of the call: the files, not the
\* directories, named *.ulg inside the directories of the base path
CardLogs ==
    LET card == prs.arg.card IN
    {"fs/microsd/log/" \o d \o "/" \o n :
        d \in {"2023-01-01", "2023-01-02"}, n \in {"log1.ulg", "log2.ulg", "log3.ulg"}}
    \cap {"fs/microsd/log/" \o p[1] \o "/" \o card.dirs[p[1]][p[2]].name :
            p \in {q \in {"2023-01-01", "2023-01-02"} \X (1..4) :
                      /\ q[2] \in DOMAIN card.dirs[q[1]]
                      /\ ~card.dirs[q[1]][q[2]].is_dir}}

\* C22: a call of list_ulogs on a card whose number of log files differs from
\* the number of entries of the index raises ValueError and returns no list.
C22_ListCountMismatchRaises ==
    prs.op = "list" /\ Cardinality(CardLogs) # Len(prs.arg.entries) =>
        prs.raised = "ValueError" /\ prs.out = <<>>

\* a call on a card without log files, the index holding an entry, that raised
\* nothing
C22_Witness ==
    /\ prs.op = "list"
    /\ CardLogs = {}
    /\ Len(prs.arg.entries) > 0
    /\ prs.raised = "none"

\* C23: the list list_ulogs returns has exactly the log files of the card, each
\* once, each with the utc of an entry of the index whose size is within the
\* tolerance of the file's, in ascending order of utc.
C23_ListsExactlyTheLogs ==
    prs.op = "list" /\ prs.raised = "none" =>
        /\ {prs.out[i].remote_path : i \in DOMAIN prs.out} = CardLogs
        /\ Len(prs.out) = Cardinality(CardLogs)
        /\ \A i \in DOMAIN prs.out : \E id \in DOMAIN prs.arg.entries :
              /\ prs.out[i].utc = prs.arg.entries[id].utc
              /\ Abs(prs.out[i].size_bytes - prs.arg.entries[id].size) <= DefaultThresholdSize
        /\ \A i, j \in DOMAIN prs.out : i < j => prs.out[i].utc <= prs.out[j].utc

\* the ways to give the log files of the card of the call to the entries of the
\* index, one each, within the tolerance
CardAssignments ==
    LET files == WalkUlogs(prs.arg.card) IN
    {a \in [DOMAIN prs.arg.entries -> DOMAIN files] :
        /\ \A x, y \in DOMAIN a : x # y => a[x] # a[y]
        /\ \A id \in DOMAIN a :
              Abs(files[a[id]].size - prs.arg.entries[id].size) <= DefaultThresholdSize}

\* a call on a card with as many log files as the index has entries, the files
\* matching the entries one each within the tolerance, that raised nothing and
\* returned fewer files than the card has
C23_Witness ==
    /\ prs.op = "list"
    /\ prs.raised = "none"
    /\ Cardinality(CardLogs) = Len(prs.arg.entries)
    /\ CardAssignments # {}
    /\ Len(prs.out) < Cardinality(CardLogs)

\* C25: download_ulog returns the path only when cmd_get answered 0 and
\* local_path exists at the return; it raises when cmd_get answered anything
\* else; with local_path missing and the staging file there (and no progress
\* callback raising) it moves the staging file to local_path and returns; with
\* both missing it raises.
C25_DownloadSuccessMeansFile ==
    prs.op = "download" =>
        /\ prs.out.returned <=> prs.raised = "none"
        /\ prs.out.returned => prs.arg.return_code = 0 /\ prs.out.local
        /\ prs.arg.return_code # 0 => prs.raised # "none"
        /\ (/\ prs.arg.return_code = 0
            /\ ~prs.arg.local
            /\ prs.arg.staging
            /\ ~ProgressCbRaises(prs.arg.on_progress, prs.arg.thread, prs.arg.fracs))
           => prs.out.returned /\ prs.out.moved /\ prs.out.local /\ ~prs.out.staging
        /\ ~prs.arg.local /\ ~prs.arg.staging => ~prs.out.returned

\* a call that found local_path missing, moved the staging file there and
\* returned the path
C25_Witness ==
    /\ prs.op = "download"
    /\ ~prs.arg.local
    /\ prs.out.moved
    /\ prs.out.returned

\* the place of a timestamp field in the order of the specification: absolute
\* UTC seconds, boot-relative milliseconds, boot-relative microseconds, capture
\* time
Rank(field) ==
    CASE field = "time_utc" -> 1
      [] field = "time_boot_ms" -> 2
      [] field = "time_usec" -> 3
      [] field = "_timestamp" -> 4

BurstCopies ==
    Cardinality({i \in DOMAIN DictGetOr(_send, hist.burst.key, <<>>) :
                    DictGetOr(_send, hist.burst.key, <<>>)[i] = hist.burst.msg})
    + Cardinality({i \in DOMAIN hist.written :
                    hist.written[i] = [key |-> hist.burst.key, msg |-> hist.burst.msg]})

\* C27: a call send(key, m, burst_count=k, burst_interval=t) returns to its
\* caller, raising nothing, and once a loop iteration that began after the call
\* has drained and written, at least one and at most k copies of m have been
\* enqueued on key.
C27_BurstCallReturns ==
    hist.burst.count > 0 =>
        /\ "TypeError" \notin hist.raised
        /\ hist.burst.drains = 2 => BurstCopies \in 1..hist.burst.count

\* C28: a call of _io_write_once on the connected MAVLink driver passes every
\* message of the batch to master.mav.send, in the order of the batch, whether
\* or not a send before it failed, and returns: the worker goes on to read.
C28_BatchSurvivesSendFailure ==
    [][pc = "write" /\ pc' # "write" /\ master.state # "none" =>
          /\ pc' = "read"
          /\ Len(master'.tx) = Len(master.tx) + Len(Flatten(pending))
          /\ \A i \in DOMAIN Flatten(pending) :
                master'.tx[Len(master.tx) + i].msg = Flatten(pending)[i].msg]_vars

\* a batch in which a send failed and a later message was passed to mav.send,
\* the worker still running
C28_Witness ==
    /\ pc \notin {"died", "none"}
    /\ \E i, j \in DOMAIN master.tx :
          /\ i < j
          /\ master.tx[i].at = master.tx[j].at
          /\ ~master.tx[i].ok

\* C29: is_ready of the bridge proxy is False while start() has not been called
\* and True from the call of start() on.
C29_ReadyOnceStarted ==
    /\ pc = "none" => ~is_ready(ExternalProxyAttrs)
    /\ pc # "none" => is_ready(ExternalProxyAttrs)

\* C30: when the dispatch of a delivered pair is over and a callback was
\* unregistered from the pair's key by the caller's thread while it ran, every
\* other callback that was registered once under that key throughout the
\* dispatch has been invoked exactly once for the pair.
C30_OthersStillInvoked ==
    (DispatchOver /\ \E g \in hist.touched : OnCurKey(g) = 0) =>
        \A h \in Handlers \ hist.touched : OnCurKey(h) = 1 => Invoked(h) = 1

\* the dispatch of a pair is over, a callback that had been invoked for the pair
\* was unregistered from the pair's key while it ran, and a callback registered
\* under that key throughout was not invoked
C30_Witness ==
    /\ DispatchOver
    /\ \E g \in hist.touched : OnCurKey(g) = 0 /\ Invoked(g) = 1
    /\ \E h \in UserHandlers \ hist.touched : OnCurKey(h) = 1 /\ Invoked(h) = 0

\* the request of the send_and_wait in progress has been given to
\* _io_write_once (the caller of SpecWait creates no other message, so the
\* request is the message created last)
RequestWritten ==
    \E i \in DOMAIN hist.written : hist.written[i] = [key |-> "mav", msg |-> hist.nmsg]

\* C31: while a send_and_wait is in progress (its event not yet waited out), a
\* pair that was dispatched on match_key after the request had been given to
\* _io_write_once has been passed to the one-shot handler of the call.
C31_ReplyReachesCollector ==
    (/\ DispatchOver
     /\ cur.key = saw.key
     /\ saw.pc \in {"sent", "waiting"}
     /\ RequestWritten)
        => Invoked(OneShot(saw.n)) >= 1

\* the request was written, a pair on match_key was dispatched to no one, and
\* the call has not yet registered its handler
C31_Witness ==
    /\ DispatchOver
    /\ cur.key = saw.key
    /\ saw.pc = "sent"
    /\ RequestWritten
    /\ Invoked(OneShot(saw.n)) = 0

\* C32: once stop() has closed the connection the worker makes no call of
\* _io_read_once, and none of _io_write_once, on it: it takes no step from its
\* read call, and none from its write call with a batch to write.
C32_NoIOAfterClose ==
    [][master.state = "closed" =>
          /\ pc = "read" => pc' = "read"
          /\ pc = "write" /\ pending # <<>> => pc' = "write"]_vars

\* stop() has returned with the connection closed, its join having timed out,
\* and the worker stands before its call of _io_read_once
C32_Witness ==
    /\ master.state = "closed"
    /\ mavcall.last = "stop"
    /\ ~mavcall.joined
    /\ pc = "read"

\* C33: a worker that finds the flag cleared at its loop test begins no new
\* iteration, it leaves _run; and once stop() has cleared the flag of a started
\* bridge (no start() follows) the worker reaches that test and exits.
C33_StopEndsLoop ==
    /\ [][pc = "loop" /\ ~_running /\ pc' # pc => pc' = "exited"]_vars
    /\ [][pc = "exited" => pc' = "exited"]_vars
    /\ (~_running /\ pc # "none") ~> (pc = "exited")

\* stop() cleared the flag while the worker was inside an iteration with a batch
\* to write
C33_Witness ==
    /\ ~_running
    /\ pc = "write"
    /\ pending # <<>>

\* C34: fn is invoked for every message on key that comes with no invocation of
\* fn in the interval before it; so once register_handler(key, fn,
\* duplicate_filter_interval=d) has been called and the worker has dispatched a
\* message on key in a later loop iteration, fn has been invoked in that
\* iteration (for the first message at the latest: nothing before it in the
\* iteration can have been a skipped delivery that counts as seen).
C34_InvokedAfterInterval ==
    (hist.dfi.made /\ hist.dfi.same >= 1) => hist.dfi.inv >= 1

C36_OnlyGenericBucketSent ==
    \A i \in DOMAIN master.tx :
        \A j \in DOMAIN hist.written :
            hist.written[j].msg = master.tx[i].msg => hist.written[j].key = "mav"

\* a message enqueued under another key than "mav" was passed to mav.send
C36_Witness ==
    \E i \in DOMAIN master.tx :
        [key |-> "42", msg |-> master.tx[i].msg] \in
            {hist.written[j] : j \in DOMAIN hist.written}

\* the callbacks of the register_handler calls in force under the key of cur,
\* in the order the calls were made
RegisteredOnCurKey == hist.order[cur.key]

\* how many callback invocations the dispatch of cur has made
RECURSIVE SumCalls(_)
SumCalls(S) ==
    IF S = {} THEN 0
    ELSE LET h == CHOOSE x \in S : TRUE IN hist.calls[h] + SumCalls(S \ {h})

\* C37: in a dispatch during which no callback was registered or unregistered
\* under the key, the n-th invocation is of the callback of the n-th
\* register_handler call in force under the key: the callbacks are invoked in
\* the order they were registered, and all of them by the end.
C37_RegistrationOrder ==
    [][/\ \A cb \in Handlers :
            (cur.n > 0 /\ hist.touched = {} /\ hist'.calls[cb] = hist.calls[cb] + 1) =>
                /\ SumCalls(Handlers) < Len(RegisteredOnCurKey)
                /\ cb = RegisteredOnCurKey[SumCalls(Handlers) + 1]
       /\ (pc = "dispatch" /\ pc' = "recv" /\ hist.touched = {}) =>
              SumCalls(Handlers) = Len(RegisteredOnCurKey)]_vars

\* a dispatch with no (un)registration under the key is over in which two
\* different callbacks were invoked
C37_Witness ==
    /\ DispatchOver
    /\ hist.touched = {}
    /\ \E g, h \in UserHandlers : g # h /\ Invoked(g) = 1 /\ Invoked(h) = 1

\* the work items submitted before job that have not finished
UnfinishedBefore(job) ==
    {j \in exe.running \cup {exe.queue[i] : i \in DOMAIN exe.queue} : j.id < job.id}

\* C38: while the parser's close() is executing, no work item submitted before
\* it is executing or waiting to: every list, download or clock operation
\* handed to the executor before stop()'s close has finished.
C38_CloseAfterEarlierOps ==
    \A c \in exe.running : c.op = "close" => UnfinishedBefore(c) = {}

\* close() is executing, and a list or a download submitted before it has
\* finished
C38_Witness ==
    \E c \in exe.running :
        /\ c.op = "close"
        /\ \E f \in exe.finished : f.id < c.id /\ f.op \in {"list", "download"}

\* message m is in a send deque
InMailbox(m) == InDict(_send, m) = 1
\* message m was given to _io_write_once
WasWritten(in, m) == \E i \in DOMAIN in : in[i].msg = m

\* C39: a message send() enqueued while no thread was inside _run (before
\* start(), or after the worker left on a stop()) stays in its send deque as
\* long as the loop is down, unless later sends on the key pushed it out of a
\* full deque; and when an iteration of a loop started afterwards has done its
\* write, the message has been given to _io_write_once.
C39_SentWhileDownIsWritten ==
    /\ [](\A m \in hist.down :
            /\ pc \in {"none", "exited"} =>
                  InMailbox(m) \/ WasWritten(hist.written, m) \/ m \in hist.evicted
            /\ m \in hist.evicted => hist.nmsg - m >= _maxlen)
    /\ [][(pc = "write" /\ pc' = "read") =>
             \A m \in hist.down \ hist.evicted : WasWritten(hist'.written, m)]_vars

\* a message sent before start() and one sent between the worker's exit and
\* the next start() have both been written, the second after a message that
\* was sent while the first loop ran
C39_Witness ==
    /\ pc = "read"
    /\ \E m \in hist.down, n \in hist.sent \ hist.down, k \in hist.down :
          /\ m < n
          /\ n < k
          /\ WasWritten(hist.written, m)
          /\ WasWritten(hist.written, n)
          /\ WasWritten(hist.written, k)

\* C40: from a configuration whose enabled petals and proxies have their
\* dependencies enabled, every control_petals and control_proxies request
\* leaves one: an enabled petal or proxy has all its dependencies among the
\* enabled proxies, and a request disables a proxy only if, when it is done, no
\* enabled petal and no enabled proxy depends on that proxy.
C40_DependenciesStayMet ==
    /\ [](DependenciesMet(cfg))
    /\ [][\A proxy \in cfg.enabled_proxies \ cfg'.enabled_proxies :
             /\ Dependents(cfg.petal_dependencies, cfg'.enabled_petals, proxy) = {}
             /\ Dependents(cfg.proxy_dependencies, cfg'.enabled_proxies, proxy) = {}]_vars

\* a proxies request with two names was answered with one change and one
\* refusal, while a petal with dependencies and a proxy with dependencies are
\* enabled
C40_Witness ==
    /\ cfg.last.endpoint = "proxies"
    /\ cfg.last.results = 1
    /\ cfg.last.errors = 1
    /\ \E petal \in cfg.enabled_petals : Deps(cfg.petal_dependencies, petal) # {}
    /\ \E proxy \in cfg.enabled_proxies : Deps(cfg.proxy_dependencies, proxy) # {}

====
